---------------------------- MODULE Spec2Model ----------------------------
(***************************************************************************)
(* A model of the generation side of databreach-rss: the identity key of   *)
(* an entry (BreachEntry.case_id), the content validator, the rate         *)
(* limiter, the blog cache (memory map + one durable unit per key) and     *)
(* BlogGenerator.generate / generate_batch.                                *)
(*                                                                         *)
(* Strings are sequences of one-character strings, so that lower(),        *)
(* strip(), endswith() and the regular expressions of the source are       *)
(* computed and not assumed.  Long free text (description, extracted       *)
(* article) is run-length encoded: a sequence of runs [c, n].              *)
(***************************************************************************)
EXTENDS Integers, Sequences, FiniteSets, TLC

(***************************************************************************)
(* Strings                                                                 *)
(***************************************************************************)
UpperCase == <<"A","B","C","D","E","F","G","H","I","J","K","L","M",
               "N","O","P","Q","R","S","T","U","V","W","X","Y","Z">>
LowerCase == <<"a","b","c","d","e","f","g","h","i","j","k","l","m",
               "n","o","p","q","r","s","t","u","v","w","x","y","z">>
Digits == {"0","1","2","3","4","5","6","7","8","9"}
Range(s) == {s[i] : i \in DOMAIN s}
SetMin(S) == CHOOSE x \in S : \A y \in S : x <= y
SetMax(S) == CHOOSE x \in S : \A y \in S : x >= y

\* str.lower(), one character
LowerChar(c) ==
  IF \E i \in DOMAIN UpperCase : UpperCase[i] = c
  THEN LowerCase[CHOOSE i \in DOMAIN UpperCase : UpperCase[i] = c]
  ELSE c
\* str.lower()
Lower(s) == [i \in DOMAIN s |-> LowerChar(s[i])]
\* the regular-expression classes \w and \s
IsWord(c) == c \in Range(UpperCase) \cup Range(LowerCase) \cup Digits \cup {"_"}
IsSpace(c) == c \in {" ", "\t", "\n"}
IsDigit(c) == c \in Digits
\* str.strip()
Strip(s) ==
  LET keep == {i \in DOMAIN s : ~IsSpace(s[i])}
  IN IF keep = {} THEN <<>> ELSE SubSeq(s, SetMin(keep), SetMax(keep))
\* str.endswith(suf), str.startswith(pre)
EndsWith(s, suf) ==
  /\ Len(suf) <= Len(s)
  /\ SubSeq(s, Len(s) - Len(suf) + 1, Len(s)) = suf
StartsWith(s, pre) ==
  /\ Len(pre) <= Len(s)
  /\ SubSeq(s, 1, Len(pre)) = pre
\* str.zfill(2) of a string of one or two digits
ZFill2(s) == IF Len(s) < 2 THEN <<"0">> \o s ELSE s

(***************************************************************************)
(* BreachEntry.case_id                                                     *)
(***************************************************************************)
\* the class as it would be if the expression spared the hyphen: [^\w\s-]
KeepWordSpaceHyphen(c) == IsWord(c) \/ IsSpace(c) \/ c = "-"
\* re.sub(r'[^\w\s]', '', s)
KeepWordSpace(c) == IsWord(c) \/ IsSpace(c)
RemovePunct(s) == SelectSeq(s, KeepWordSpace)

CorporateSuffixes ==
  << <<" ","i","n","c">>, <<" ","l","l","c">>, <<" ","l","t","d">>,
     <<" ","c","o","r","p">>,
     <<" ","c","o","r","p","o","r","a","t","i","o","n">>,
     <<" ","c","o","m","p","a","n","y">>, <<" ","c","o">> >>

\* the for loop over the suffixes: each is tried once, in list order, on the
\* name as the earlier iterations left it
RECURSIVE StripSuffixes(_, _)
StripSuffixes(name, i) ==
  IF i > Len(CorporateSuffixes) THEN name
  ELSE LET suf == CorporateSuffixes[i]
       IN StripSuffixes(IF EndsWith(name, suf)
                        THEN SubSeq(name, 1, Len(name) - Len(suf))
                        ELSE name, i + 1)

NormalizedName(company_name) ==
  Strip(StripSuffixes(RemovePunct(Lower(company_name)), 1))

AllDigits(s, a, b) == \A i \in a..b : IsDigit(s[i])
\* re.search(r'(\d{4})-(\d{2})', d): the start positions of a match
IsoMatches(d) ==
  {i \in 1..(Len(d) - 6) : AllDigits(d, i, i + 3) /\ d[i + 4] = "-"
                           /\ AllDigits(d, i + 5, i + 6)}
\* re.search(r'(\d{1,2})/\d{1,2}/(\d{4})', d): <<start, len of group 1, len of
\* the middle field>> of every way the pattern matches
SlashMatches(d) ==
  {m \in (1..Len(d)) \X (1..2) \X (1..2) :
     LET i == m[1] a == m[2] b == m[3]
     IN /\ i + a + b + 5 <= Len(d)
        /\ AllDigits(d, i, i + a - 1)
        /\ d[i + a] = "/"
        /\ AllDigits(d, i + a + 1, i + a + b)
        /\ d[i + a + b + 1] = "/"
        /\ AllDigits(d, i + a + b + 2, i + a + b + 5)}
\* the match re.search returns: leftmost start, then the greedy choice
\* ({1,2} tries 2 before 1) for group 1, then for the middle field
FirstSlashMatch(d) ==
  LET ms == SlashMatches(d)
      i  == SetMin({m[1] : m \in ms})
      a  == SetMax({m[2] : m \in {x \in ms : x[1] = i}})
      b  == SetMax({m[3] : m \in {x \in ms : x[1] = i /\ x[2] = a}})
  IN <<i, a, b>>

DatePart(date_reported) ==
  IF date_reported = <<>> THEN <<>>
  ELSE IF IsoMatches(date_reported) # {}
  THEN LET i == SetMin(IsoMatches(date_reported))
       IN SubSeq(date_reported, i, i + 6)
  ELSE IF SlashMatches(date_reported) # {}
  THEN LET m == FirstSlashMatch(date_reported)
           i == m[1]
           a == m[2]
           b == m[3]
       IN SubSeq(date_reported, i + a + b + 2, i + a + b + 5) \o <<"-">>
          \o ZFill2(SubSeq(date_reported, i, i + a - 1))
  ELSE <<>>

\* hashlib.md5(content).hexdigest(): the digest is modelled as injective, a key
\* is the hashed content itself
Md5(content) == content
case_id(e) == Md5(NormalizedName(e.company_name) \o DatePart(e.date_reported))

(***************************************************************************)
(* Run-length encoded text: <<[c |-> " ", n |-> 2], [c |-> "x", n |-> 60]>> *)
(* is two blanks followed by sixty x.  Only the length and the surrounding *)
(* whitespace of a description or an extracted article are ever read.      *)
(***************************************************************************)
RECURSIVE RLLen(_)
RLLen(r) == IF r = <<>> THEN 0 ELSE Head(r).n + RLLen(Tail(r))
RLStrip(r) ==
  LET keep == {i \in DOMAIN r : ~IsSpace(r[i].c)}
  IN IF keep = {} THEN <<>> ELSE SubSeq(r, SetMin(keep), SetMax(keep))
\* f"{description} {extracted_text}"
RLJoinSpace(a, b) == a \o <<[c |-> " ", n |-> 1]>> \o b

(***************************************************************************)
(* DataValidator                                                           *)
(***************************************************************************)
MIN_DESCRIPTION_LENGTH == 50
\* 0.5, in hundredths
MIN_QUALITY_SCORE == 50
s_unknown == <<"u","n","k","n","o","w","n">>
s_n_a == <<"n","/","a">>
s_na == <<"n","a">>
s_none == <<"n","o","n","e">>
s_tbd == <<"t","b","d">>
s_breach == <<"b","r","e","a","c","h">>
s_data_breach == <<"d","a","t","a"," ">> \o s_breach
INVALID_NAMES == {s_unknown, s_n_a, s_na, s_none, <<>>, s_tbd}

(***************************************************************************)
(* quality_score is a Python float built by += in a fixed order.  A float  *)
(* is modelled as [h, e]: the double that lies e units in the last place   *)
(* from the double nearest to h/100.  UlpTable lists, for the sums this    *)
(* accumulation can form, every IEEE-754 addition <<h, e, w, e'>> whose    *)
(* operand or result is off the nearest double; all others are exact.      *)
(***************************************************************************)
UlpTable ==
  { <<5, 0, 10, 1>>, <<10, 0, 5, 1>>, <<15, 1, 10, 0>>, <<20, 0, 10, 1>>,
    <<30, 0, 15, -1>>, <<30, 1, 5, 1>>, <<30, 1, 10, 0>>, <<30, 1, 15, 1>>,
    <<35, 0, 5, -1>>, <<35, 0, 10, -1>>, <<35, 1, 10, 1>>, <<40, -1, 10, 0>>,
    <<45, -1, 5, -1>>, <<45, -1, 10, -1>>, <<45, 1, 5, 1>>, <<45, 1, 10, 0>>,
    <<50, -1, 10, 0>>, <<50, 1, 10, 1>>, <<55, -1, 5, 0>>, <<55, -1, 10, -1>>,
    <<55, 0, 5, 1>>, <<60, 1, 10, 1>>, <<65, 0, 5, 1>>, <<70, 0, 10, -1>>,
    <<70, 1, 10, 0>> }
\* quality_score += w/100
FloatAdd(v, w) ==
  LET hits == {t \in UlpTable : t[1] = v.h /\ t[2] = v.e /\ t[3] = w}
  IN [h |-> v.h + w,
      e |-> IF hits = {} THEN 0 ELSE (CHOOSE t \in hits : TRUE)[4]]
\* quality_score < c/100
FloatLess(v, c) == v.h < c \/ (v.h = c /\ v.e < 0)
\* the score as it would be cut off after two decimals instead of rounded
TruncateTo2(v) == IF v.e < 0 THEN v.h - 1 ELSE v.h
\* round(quality_score, 2), in hundredths
Round2(v) == v.h
\* if cond: quality_score += w/100
AddIf(v, cond, w) == IF cond THEN FloatAdd(v, w) ELSE v

has_valid_name(entry) ==
  /\ entry.company_name # <<>>
  /\ Strip(Lower(entry.company_name)) \notin INVALID_NAMES
combined_content(entry, extracted_text) ==
  IF extracted_text # <<>>
  THEN RLJoinSpace(entry.description, extracted_text)
  ELSE entry.description
has_sufficient_content(entry, extracted_text) ==
  RLLen(RLStrip(combined_content(entry, extracted_text))) >= MIN_DESCRIPTION_LENGTH

\* the unrounded quality_score of lines 233-266
RawScore(entry) ==
  LET s0 == [h |-> 0, e |-> 0]
      s1 == AddIf(s0, has_valid_name(entry), 30)
      s2 == AddIf(s1, RLLen(entry.description) >= 50, 20)
      s3 == AddIf(s2, RLLen(entry.description) >= 200, 10)
      s4 == AddIf(s3, /\ entry.records_affected # <<>>
                      /\ Lower(entry.records_affected)
                           \notin {s_unknown, s_n_a, s_na, <<>>}, 15)
      s5 == AddIf(s4, /\ entry.threat_actor # <<>>
                      /\ Lower(entry.threat_actor) \notin {s_unknown, s_n_a, <<>>}, 10)
      s6 == AddIf(s5, /\ entry.location # <<>>
                      /\ Lower(entry.location) \notin {s_unknown, s_n_a, <<>>}, 5)
      s7 == AddIf(s6, Lower(entry.breach_type)
                        \notin {s_data_breach, s_breach, s_unknown, <<>>}, 10)
  IN s7

\* validate as it would be if it gave up at the first failing requirement
validateFirstReason(entry, extracted_text) ==
  LET name_ok == has_valid_name(entry)
      content_ok == has_sufficient_content(entry, extracted_text)
      score == RawScore(entry)
      low == name_ok /\ content_ok /\ FloatLess(score, MIN_QUALITY_SCORE)
  IN [is_valid |-> name_ok /\ content_ok /\ ~low,
      quality_score |-> Round2(score),
      reasons |-> IF ~name_ok THEN <<"name">>
                  ELSE IF ~content_ok THEN <<"content">>
                  ELSE IF low THEN <<"score">> ELSE <<>>]

\* DataValidator.validate: reasons are "name", "content", "score"
validate(entry, extracted_text) ==
  LET name_ok == has_valid_name(entry)
      content_ok == has_sufficient_content(entry, extracted_text)
      score == RawScore(entry)
      r1 == IF name_ok THEN <<>> ELSE <<"name">>
      r2 == IF content_ok THEN r1 ELSE Append(r1, "content")
      low == name_ok /\ content_ok /\ FloatLess(score, MIN_QUALITY_SCORE)
  IN [is_valid |-> name_ok /\ content_ok /\ ~low,
      quality_score |-> Round2(score),
      reasons |-> IF low THEN Append(r2, "score") ELSE r2]

(***************************************************************************)
(* Entries handed to the generator.  EntryPool is the pool the inputs are  *)
(* drawn from; an entry is named by its index in the pool.                 *)
(***************************************************************************)
Text(n) == <<[c |-> "x", n |-> n]>>
s_http == <<"h","t","t","p">>
BaseEntry ==
  [company_name |-> <<>>, date_reported |-> <<>>, url |-> s_http,
   description |-> Text(60), records_affected |-> <<>>, threat_actor |-> <<>>,
   location |-> <<>>, breach_type |-> s_breach]
EntryPool ==
  << \* "Ab Corp", 2024-03-05, a specific breach type: valid, score 0.6
     [BaseEntry EXCEPT !.company_name = <<"A","b"," ","C","o","r","p">>,
                       !.date_reported = <<"2","0","2","4","-","0","3","-","0","5">>,
                       !.breach_type = <<"H","a","c","k">>],
     \* "AB, Inc.", 3/5/2024, 5 records: the same case as the first, score 0.65
     [BaseEntry EXCEPT !.company_name = <<"A","B",","," ","I","n","c",".">>,
                       !.date_reported = <<"3","/","5","/","2","0","2","4">>,
                       !.records_affected = <<"5">>],
     \* "Zed", no date, a 10 character description: valid (score 0.5) only
     \* when the extractor finds an article
     [BaseEntry EXCEPT !.company_name = <<"Z","e","d">>,
                       !.description = Text(10),
                       !.threat_actor = <<"L","z">>,
                       !.breach_type = <<"H","a","c","k">>],
     \* "N/A": a placeholder name, never valid
     [BaseEntry EXCEPT !.company_name = <<"N","/","A">>],
     \* "Zed Co", no date, no url: the same case as the third
     [BaseEntry EXCEPT !.company_name = <<"Z","e","d"," ","C","o">>,
                       !.url = <<>>],
     \* "Q", 2024-04: one more case
     [BaseEntry EXCEPT !.company_name = <<"Q">>,
                       !.date_reported = <<"2","0","2","4","-","0","4">>] >>
NEntries == 3
EntryIds == 1..NEntries
Entry(i) == EntryPool[i]
\* entry.case_id of every entry of the pool
KeyTable == [i \in DOMAIN EntryPool |-> case_id(EntryPool[i])]
KeyOf(i) == KeyTable[i]
AllKeys == {KeyOf(i) : i \in EntryIds}

\* ArticleExtractor.extract: None (<<>>) without an http url; otherwise the
\* network decides between None and a text of at least 100 characters
ExtractOutcomes(entry) ==
  IF entry.url = <<>> \/ ~StartsWith(entry.url, s_http)
  THEN {<<>>}
  ELSE {<<>>, Text(100)}

\* validator.validate(entry, extracted_text) of every entry of the pool
ValidateTable ==
  [i \in DOMAIN EntryPool |->
     [x \in {<<>>, Text(100)} |-> validate(EntryPool[i], x)]]

(***************************************************************************)
(* BlogPost and its durable unit                                           *)
(***************************************************************************)
\* Optional values: None is the empty tuple, a value x is <<x>>
None == <<>>
Some(x) == <<x>>
BlogFields == {"id", "company_name", "title", "what_happened", "who_is_affected",
               "contact_us", "generated_at", "source_url", "quality_score"}
s_title_tail == <<" ","D","a","t","a"," ","B","r","e","a","c","h">>
\* BlogGenerator._generate_title
generate_title(company_name) == company_name \o s_title_tail

\* what client.messages.create can come to: an exception, a text that is not
\* JSON, JSON that is not an object (result.get then raises), or a JSON
\* object, given as the function from its keys to its values
Responses ==
  {[kind |-> "raise", body |-> <<>>],
   [kind |-> "notjson", body |-> <<>>],
   [kind |-> "list", body |-> <<>>],
   [kind |-> "object", body |-> [what_happened |-> "w1", who_is_affected |-> "a1"]],
   [kind |-> "object", body |-> [what_happened |-> "w2"]]}
IsJsonObject(r) == r.kind = "object"
\* dict.get(key, '')
DictGet(d, key) == IF key \in DOMAIN d THEN d[key] ELSE ""

\* the BlogPost(...) built at lines 529-539
MakeBlog(e, result, quality_score, at) ==
  [id |-> KeyOf(e),
   company_name |-> Entry(e).company_name,
   title |-> generate_title(Entry(e).company_name),
   what_happened |-> DictGet(result, "what_happened"),
   who_is_affected |-> DictGet(result, "who_is_affected"),
   contact_us |-> "boilerplate",
   generated_at |-> at,
   source_url |-> Entry(e).url,
   quality_score |-> quality_score]

\* repr() of a float of at most two decimals, as json.dump writes it:
\* 50 -> "0.5", 65 -> "0.65", 100 -> "1.0"
Digit(n) == <<"0","1","2","3","4","5","6","7","8","9">>[n + 1]
DigitValue(c) == CHOOSE n \in 0..9 : Digit(n) = c
\* the score as it would be written with one decimal
FloatReprOneDecimal(h) == <<Digit(h \div 100), ".", Digit((h % 100) \div 10)>>
FloatRepr(h) ==
  <<Digit(h \div 100), ".", Digit((h % 100) \div 10)>>
  \o (IF h % 10 = 0 THEN <<>> ELSE <<Digit(h % 10)>>)
\* float() of such a text, as json.load reads it, in hundredths
FloatParse(s) ==
  100 * DigitValue(s[1]) + 10 * DigitValue(s[3])
  + (IF Len(s) >= 4 THEN DigitValue(s[4]) ELSE 0)

\* json.dump(blog.to_dict()): a JSON object, one member per field; a text
\* value is a JSON string, the score a JSON number
ToJson(blog) ==
  [f \in BlogFields |->
     IF f = "quality_score" THEN [t |-> "number", v |-> FloatRepr(blog[f])]
     ELSE [t |-> "string", v |-> blog[f]]]
JsonValue(j) == IF j.t = "number" THEN FloatParse(j.v) ELSE j.v
\* a durable unit: what the file holds
GoodUnit(blog) == [kind |-> "json", obj |-> ToJson(blog)]
CorruptUnit == [kind |-> "corrupt"]
\* json.load(f) followed by BlogPost(**data): None stands for the exception
\* (invalid JSON, or a missing or unexpected field)
LoadUnit(u) ==
  IF u.kind # "json" THEN None
  ELSE IF DOMAIN u.obj # BlogFields THEN None
  ELSE Some([f \in BlogFields |-> JsonValue(u.obj[f])])

\* a map as a function from the keys it holds
Put(m, k, v) == [x \in DOMAIN m \cup {k} |-> IF x = k THEN v ELSE m[x]]
EmptyMap == [x \in {} |-> None]
\* dict.get(key)
MapGet(m, k) == IF k \in DOMAIN m THEN Some(m[k]) ELSE None

(***************************************************************************)
(* Bounds of the model                                                     *)
(***************************************************************************)
NThreads == 2
\* calls made from outside, restarts included: of generate (and clear)
MaxOps == 2
\* ... of BlogCache.set (and clear)
MaxCacheOps == 3
\* ... of generate_batch
MaxBatches == 2
\* ... of RateLimiter.wait
MaxWaits == 3
\* the clock stops ticking at StartTime + MaxTicks unless a sleeper waits
MaxTicks == 1
\* the longest entry list and the largest cap given to generate_batch
MaxBatchLen == 2
MaxLimit == 1
\* how many of the last completed calls are remembered
HistLen == 2

Threads == 1..NThreads
\* BlogGenerator.__init__: RateLimiter(requests_per_minute=20)
requests_per_minute == 20
\* RateLimiter.__init__: 60.0 / requests_per_minute, in seconds
min_interval == 60 \div requests_per_minute
\* time.time() when the process starts: far more than min_interval past 0.0
StartTime == 5

(***************************************************************************)
(* State                                                                   *)
(***************************************************************************)
VARIABLES
  mem,                \* BlogCache.memory_cache: case_id -> BlogPost
  disk,               \* the cache directory: file stem -> durable unit
  client,             \* BlogGenerator.client is configured
  now,                \* time.time(), in seconds
  last_request_time,  \* RateLimiter.last_request_time
  lock,               \* RateLimiter.lock: None or <<holder>>
  pc,                 \* where each thread is
  loc,                \* each thread's local variables in generate / set
  batch,              \* each thread's local variables in generate_batch
  calls,              \* history: client.messages.create invocations per key
  grants,             \* history: the times at which wait was left, this process
  hist,               \* history: the last HistLen completed calls
  setLog,             \* history: the last blog set per id since the last clear
  allWritten,         \* history: no disk write failed since the last clear
  ops                 \* history: calls made from outside so far

\* the identity resolver and the aggregation pass of collect_all
VARIABLES
  kin,                \* two entries handed to case_id, or None
  kout,               \* the strings case_id hashed for them, or None
  max_per_source,     \* collect_all's argument
  results,            \* history: what each collector returned
  objs,               \* all_entries: the entry objects, as they are now
  produced,           \* history: the same objects as their collectors made them
  case_entries,       \* the dict case_entries, in insertion order
  fold_i,             \* the position of the fold in all_entries
  fpc                 \* where collect_all is

resolverVars == <<kin, kout, max_per_source, results, objs, produced,
                  case_entries, fold_i, fpc>>

\* the components that are functions of their arguments: what they are
\* called with and what they return
VARIABLES
  vin,                \* the entry and the text handed to validate, or None
  vout,               \* the ValidationResult, or None
  din,                \* the text handed to _parse_date and the clock, or None
  dout,               \* what _parse_date came to, or None
  sin,                \* the entries handed to the display sort, or None
  sout                \* the entries as sorted, or None

pureVars == <<vin, vout, din, dout, sin, sout>>
vars == <<mem, disk, client, now, last_request_time, lock, pc, loc, batch,
          calls, grants, hist, setLog, allWritten, ops, kin, kout,
          max_per_source, results, objs, produced, case_entries, fold_i, fpc,
          vin, vout, din, dout, sin, sout>>

IdleLoc ==
  [e |-> 0, qs |-> 0, wake |-> 0, blog |-> None, mode |-> "none",
   ext |-> FALSE, pre |-> <<>>, entered |-> 0, ahead |-> 0]
IdleBatch ==
  [active |-> FALSE, limit |-> None, entries |-> <<>>, blogs |-> <<>>,
   todo |-> <<>>, i |-> 1, generated_count |-> 0, skipped_count |-> 0,
   ext |-> 0, attempted |-> <<>>, uncached |-> <<>>]

\* no collect_all under way and none made
ResolverIdle ==
  /\ max_per_source = 0
  /\ results = <<>>
  /\ objs = <<>>
  /\ produced = <<>>
  /\ case_entries = <<>>
  /\ fold_i = 1
  /\ fpc = "idle"

InitGenerator ==
  /\ mem = EmptyMap
  /\ disk = EmptyMap
  /\ client \in BOOLEAN
  /\ now = StartTime
  /\ last_request_time = 0
  /\ lock = None
  /\ pc = [t \in Threads |-> "idle"]
  /\ loc = [t \in Threads |-> IdleLoc]
  /\ batch = [t \in Threads |-> IdleBatch]
  /\ calls = [k \in AllKeys |-> 0]
  /\ grants = <<>>
  /\ hist = <<>>
  /\ setLog = EmptyMap
  /\ allWritten = TRUE
  /\ ops = 0

\* none of the pure components has been called
PureIdle ==
  /\ vin = None
  /\ vout = None
  /\ din = None
  /\ dout = None
  /\ sin = None
  /\ sout = None

Init ==
  /\ InitGenerator
  /\ ResolverIdle
  /\ kin = None
  /\ kout = None
  /\ PureIdle

Push(h, ev) == IF Len(h) < HistLen THEN Append(h, ev) ELSE Append(Tail(h), ev)
Last(h) == h[Len(h)]

(***************************************************************************)
(* Returning from generate                                                 *)
(***************************************************************************)
\* lines 593-598 of generate_batch: what the loop does with generate's result
Absorb(b, e, v, ext) ==
  [b EXCEPT !.blogs = IF v # None THEN Append(@, v[1]) ELSE @,
            !.generated_count = IF v # None THEN @ + 1 ELSE @,
            !.skipped_count = IF v # None THEN @ ELSE @ + 1,
            !.ext = IF ext THEN @ + 1 ELSE @,
            !.attempted = Append(@, e)]

\* generate(entry e) returns v to its caller: to the loop of generate_batch
\* when b is an active batch, to the outside otherwise.  pre is the cache as
\* the call found it, memAfter and diskAfter the cache as it leaves it.
Return(t, e, v, b, ext, write, pre, memAfter, diskAfter) ==
  /\ pc' = [pc EXCEPT ![t] = IF b.active THEN "batch" ELSE "idle"]
  /\ loc' = [loc EXCEPT ![t] = IdleLoc]
  /\ batch' = [batch EXCEPT ![t] = IF b.active THEN Absorb(b, e, v, ext) ELSE b]
  /\ hist' = Push(hist, [op |-> "generate", key |-> KeyOf(e), e |-> e, ret |-> v,
                         ext |-> ext, write |-> write,
                         same |-> (pre = <<memAfter, diskAfter>>)])

(***************************************************************************)
(* BlogGenerator.generate, in the steps at which it reads or writes state  *)
(* that other threads share                                                *)
(***************************************************************************)
\* generate as it would be if it did not call rate_limiter.wait()
GenMissNoWait(t, e, skip, b) ==
  LET pre == <<mem, disk>>
  IN \E x \in ExtractOutcomes(Entry(e)) :
       LET v == ValidateTable[e][x]
       IN IF ~skip /\ ~v.is_valid
          THEN Return(t, e, None, b, FALSE, "none", pre, mem, disk)
          ELSE IF ~client
          THEN Return(t, e, None, b, FALSE, "none", pre, mem, disk)
          ELSE /\ pc' = [pc EXCEPT ![t] = "call"]
               /\ loc' = [loc EXCEPT ![t] =
                            [IdleLoc EXCEPT !.e = e, !.mode = "generate",
                                            !.qs = IF skip THEN 50
                                                   ELSE v.quality_score,
                                            !.pre = pre]]
               /\ batch' = [batch EXCEPT ![t] = b]
               /\ UNCHANGED hist

\* lines 484-500, after a cache miss: the extraction, the validation and the
\* client check; b is the caller's generate_batch record
GenMiss(t, e, skip, b) ==
  LET pre == <<mem, disk>>
  IN \E x \in ExtractOutcomes(Entry(e)) :
       LET v == ValidateTable[e][x]
       IN IF ~skip /\ ~v.is_valid
          THEN Return(t, e, None, b, FALSE, "none", pre, mem, disk)
          ELSE IF ~client
          THEN Return(t, e, None, b, FALSE, "none", pre, mem, disk)
          ELSE /\ pc' = [pc EXCEPT ![t] = "wait"]
               /\ loc' = [loc EXCEPT ![t] =
                            [IdleLoc EXCEPT !.e = e, !.mode = "generate",
                                            !.qs = IF skip THEN 50
                                                   ELSE v.quality_score,
                                            !.pre = pre]]
               /\ batch' = [batch EXCEPT ![t] = b]
               /\ UNCHANGED hist

\* generate as it would be without the lookup of lines 479-482
GenBeginNoLookup(t, e, skip, b) == GenMiss(t, e, skip, b)

\* lines 476-500: the cache lookup, and on a miss the rest
GenBegin(t, e, skip, b) ==
  LET cached == MapGet(mem, KeyOf(e))
  IN IF cached # None
     THEN Return(t, e, cached, b, FALSE, "none", <<mem, disk>>, mem, disk)
     ELSE GenMiss(t, e, skip, b)

\* generate(entry, skip_validation) called from outside
GenEnter(t, e, skip) ==
  /\ pc[t] = "idle"
  /\ ops' = ops + 1
  /\ GenBegin(t, e, skip, batch[t])
  /\ UNCHANGED <<mem, disk, client, now, last_request_time, lock, calls, grants,
                 setLog, allWritten>>
  /\ UNCHANGED <<resolverVars, pureVars>>

\* wait as it would be without the lock
WaitAcquireNoLock(t) ==
  /\ pc[t] = "wait"
  /\ lock' = Some(t)
  /\ LET elapsed == now - last_request_time
     IN IF elapsed < min_interval
        THEN /\ pc' = [pc EXCEPT ![t] = "sleep"]
             /\ loc' = [loc EXCEPT ![t].wake = now + (min_interval - elapsed)]
        ELSE /\ pc' = [pc EXCEPT ![t] = "stamp"]
             /\ UNCHANGED loc
  /\ UNCHANGED <<mem, disk, client, now, last_request_time, batch, calls, grants,
                 hist, setLog, allWritten, ops>>
  /\ UNCHANGED <<resolverVars, pureVars>>

\* wait as it would be with sleep_time = min_interval + elapsed
WaitAcquireWrongSign(t) ==
  /\ pc[t] = "wait"
  /\ lock = None
  /\ lock' = Some(t)
  /\ LET elapsed == now - last_request_time
     IN IF elapsed < min_interval
        THEN /\ pc' = [pc EXCEPT ![t] = "sleep"]
             /\ loc' = [loc EXCEPT ![t].wake = now + (min_interval + elapsed)]
        ELSE /\ pc' = [pc EXCEPT ![t] = "stamp"]
             /\ UNCHANGED loc
  /\ UNCHANGED <<mem, disk, client, now, last_request_time, batch, calls, grants,
                 hist, setLog, allWritten, ops>>
  /\ UNCHANGED <<resolverVars, pureVars>>

\* RateLimiter.wait, lines 297-302: take the lock, read the clock, decide
\* whether and how long to sleep
WaitAcquire(t) ==
  /\ pc[t] = "wait"
  /\ lock = None
  /\ lock' = Some(t)
  /\ LET elapsed == now - last_request_time
     IN IF elapsed < min_interval
        THEN /\ pc' = [pc EXCEPT ![t] = "sleep"]
             /\ loc' = [loc EXCEPT ![t].wake = now + (min_interval - elapsed)]
        ELSE /\ pc' = [pc EXCEPT ![t] = "stamp"]
             /\ UNCHANGED loc
  /\ UNCHANGED <<mem, disk, client, now, last_request_time, batch, calls, grants,
                 hist, setLog, allWritten, ops>>
  /\ UNCHANGED <<resolverVars, pureVars>>

\* time.sleep(sleep_time) returns: not before the time asked for has passed
WaitWake(t) ==
  /\ pc[t] = "sleep"
  /\ now >= loc[t].wake
  /\ pc' = [pc EXCEPT ![t] = "stamp"]
  /\ UNCHANGED <<mem, disk, client, now, last_request_time, lock, loc, batch,
                 calls, grants, hist, setLog, allWritten, ops>>
  /\ UNCHANGED <<resolverVars, pureVars>>

\* line 303 and the end of the with block: stamp the clock, release the lock,
\* return.  A caller of wait itself is back outside; generate goes on to the
\* external call.  Every other thread that is waiting for the lock has seen
\* one more caller served ahead of it.
WaitStamp(t) ==
  /\ pc[t] = "stamp"
  /\ last_request_time' = now
  /\ lock' = None
  /\ grants' = Append(grants, now)
  /\ pc' = [pc EXCEPT ![t] = IF loc[t].mode = "wait" THEN "idle" ELSE "call"]
  /\ loc' = [u \in Threads |->
               IF u = t THEN (IF loc[t].mode = "wait" THEN IdleLoc ELSE loc[t])
               ELSE IF pc[u] = "wait" /\ loc[u].mode = "wait"
               THEN [loc[u] EXCEPT !.ahead = @ + 1]
               ELSE loc[u]]
  /\ hist' = IF loc[t].mode = "wait"
             THEN Push(hist, [op |-> "wait", entered |-> loc[t].entered,
                              left |-> now, ahead |-> loc[t].ahead])
             ELSE hist
  /\ UNCHANGED <<mem, disk, client, now, batch, calls, setLog, allWritten, ops>>
  /\ UNCHANGED <<resolverVars, pureVars>>

\* RateLimiter.wait() called from outside
WaitEnter(t) ==
  /\ pc[t] = "idle"
  /\ ops' = ops + 1
  /\ pc' = [pc EXCEPT ![t] = "wait"]
  /\ loc' = [loc EXCEPT ![t] = [IdleLoc EXCEPT !.mode = "wait", !.entered = now]]
  /\ UNCHANGED <<mem, disk, client, now, last_request_time, lock, batch, calls,
                 grants, hist, setLog, allWritten>>
  /\ UNCHANGED <<resolverVars, pureVars>>

\* generate as it would be if it stored a blog before it had parsed the answer
GenCallStoresFirst(t) ==
  /\ pc[t] = "call"
  /\ calls' = [calls EXCEPT ![KeyOf(loc[t].e)] = @ + 1]
  /\ \E r \in Responses :
       IF ~IsJsonObject(r)
       THEN /\ mem' = Put(mem, KeyOf(loc[t].e),
                          MakeBlog(loc[t].e, <<>>, loc[t].qs, now))
            /\ Return(t, loc[t].e, None, batch[t], TRUE, "none", loc[t].pre,
                      mem', disk)
       ELSE /\ pc' = [pc EXCEPT ![t] = "setmem"]
            /\ loc' = [loc EXCEPT ![t].ext = TRUE,
                                  ![t].blog = Some(MakeBlog(loc[t].e, r.body,
                                                            loc[t].qs, now))]
            /\ UNCHANGED <<mem, batch, hist>>
  /\ UNCHANGED <<disk, client, now, last_request_time, lock, grants, setLog,
                 allWritten, ops>>
  /\ UNCHANGED <<resolverVars, pureVars>>

\* lines 506-539: the external call, the parse of its answer, the BlogPost
GenCall(t) ==
  /\ pc[t] = "call"
  /\ calls' = [calls EXCEPT ![KeyOf(loc[t].e)] = @ + 1]
  /\ \E r \in Responses :
       IF ~IsJsonObject(r)
       THEN Return(t, loc[t].e, None, batch[t], TRUE, "none", loc[t].pre, mem, disk)
       ELSE /\ pc' = [pc EXCEPT ![t] = "setmem"]
            /\ loc' = [loc EXCEPT ![t].ext = TRUE,
                                  ![t].blog = Some(MakeBlog(loc[t].e, r.body,
                                                            loc[t].qs, now))]
            /\ UNCHANGED <<batch, hist>>
  /\ UNCHANGED <<mem, disk, client, now, last_request_time, lock, grants, setLog,
                 allWritten, ops>>
  /\ UNCHANGED <<resolverVars, pureVars>>

(***************************************************************************)
(* BlogCache                                                               *)
(***************************************************************************)
\* set as it would be with setdefault in place of the assignment
SetMemoryIfAbsent(m, blog) == IF blog.id \in DOMAIN m THEN m ELSE Put(m, blog.id, blog)
\* BlogCache.set, line 341
SetMemory(m, blog) == Put(m, blog.id, blog)
\* BlogCache.set, lines 344-349: w is what the file system does.  open() for
\* writing truncates the file, so a dump that fails leaves a unit that is not
\* valid JSON; a failing open() leaves the directory as it was.
WriteOutcomes == {"ok", "open_failed", "dump_failed"}
SetDisk(d, blog, w) ==
  CASE w = "ok" -> Put(d, blog.id, GoodUnit(blog))
    [] w = "dump_failed" -> Put(d, blog.id, CorruptUnit)
    [] OTHER -> d

CacheSetMem(t) ==
  /\ pc[t] = "setmem"
  /\ mem' = SetMemory(mem, loc[t].blog[1])
  /\ pc' = [pc EXCEPT ![t] = "setdisk"]
  /\ UNCHANGED <<disk, client, now, last_request_time, lock, loc, batch, calls,
                 grants, hist, setLog, allWritten, ops>>
  /\ UNCHANGED <<resolverVars, pureVars>>

\* the disk write of set, and the return of set (and of generate, line 545)
CacheSetDisk(t) ==
  /\ pc[t] = "setdisk"
  /\ \E w \in WriteOutcomes :
       LET blog == loc[t].blog[1]
       IN /\ disk' = SetDisk(disk, blog, w)
          /\ setLog' = Put(setLog, blog.id, blog)
          /\ allWritten' = (allWritten /\ w = "ok")
          /\ IF loc[t].mode = "generate"
             THEN Return(t, loc[t].e, Some(blog), batch[t], TRUE, w, loc[t].pre,
                         mem, disk')
             ELSE /\ pc' = [pc EXCEPT ![t] = "idle"]
                  /\ loc' = [loc EXCEPT ![t] = IdleLoc]
                  /\ hist' = Push(hist, [op |-> "set", key |-> blog.id,
                                         ret |-> Some(blog), write |-> w])
                  /\ UNCHANGED batch
  /\ UNCHANGED <<mem, client, now, last_request_time, lock, calls, grants, ops>>
  /\ UNCHANGED <<resolverVars, pureVars>>

\* the blogs a caller may hand to BlogCache.set
SetInputs ==
  {MakeBlog(e, r.body, ValidateTable[e][<<>>].quality_score, now) :
     e \in EntryIds, r \in {x \in Responses : IsJsonObject(x)}}

\* BlogCache.set(blog) called from outside
SetEnter(t, blog) ==
  /\ pc[t] = "idle"
  /\ ops' = ops + 1
  /\ pc' = [pc EXCEPT ![t] = "setmem"]
  /\ loc' = [loc EXCEPT ![t] = [IdleLoc EXCEPT !.mode = "set", !.blog = Some(blog)]]
  /\ UNCHANGED <<mem, disk, client, now, last_request_time, lock, batch, calls,
                 grants, hist, setLog, allWritten>>
  /\ UNCHANGED <<resolverVars, pureVars>>

\* BlogCache.clear
Clear ==
  /\ ops' = ops + 1
  /\ mem' = EmptyMap
  /\ disk' = EmptyMap
  /\ setLog' = EmptyMap
  /\ allWritten' = TRUE
  /\ hist' = Push(hist, [op |-> "clear"])
  /\ UNCHANGED <<client, now, last_request_time, lock, pc, loc, batch, calls,
                 grants>>
  /\ UNCHANGED <<resolverVars, pureVars>>

\* BlogCache._load_from_disk: the units are read in the order the directory
\* listing gives them; the first that fails to load ends the loop (the try
\* is around the loop)
RECURSIVE LoadAllSkipping(_, _, _)
\* the load as it would be with the try inside the loop: a unit that fails
\* is passed over
LoadAllSkipping(d, order, m) ==
  IF order = <<>> THEN m
  ELSE LET blog == LoadUnit(d[Head(order)])
       IN LoadAllSkipping(d, Tail(order),
                          IF blog = None THEN m ELSE Put(m, blog[1].id, blog[1]))
RECURSIVE LoadAll(_, _, _)
LoadAll(d, order, m) ==
  IF order = <<>> THEN m
  ELSE LET blog == LoadUnit(d[Head(order)])
       IN IF blog = None THEN m
          ELSE LoadAll(d, Tail(order), Put(m, blog[1].id, blog[1]))
\* the orders in which glob("*.json") may list the files S
Orders(S) ==
  {o \in [1..Cardinality(S) -> S] : \A i, j \in 1..Cardinality(S) : o[i] = o[j] => i = j}

\* the process ends (wherever its threads are) and a new one constructs a
\* BlogGenerator over the same cache directory
Restart ==
  /\ ops' = ops + 1
  /\ \E o \in Orders(DOMAIN disk) : mem' = LoadAll(disk, o, EmptyMap)
  /\ client' \in BOOLEAN
  /\ last_request_time' = 0
  /\ lock' = None
  /\ grants' = <<>>
  /\ pc' = [t \in Threads |-> "idle"]
  /\ loc' = [t \in Threads |-> IdleLoc]
  /\ batch' = [t \in Threads |-> IdleBatch]
  /\ hist' = Push(hist, [op |-> "restart"])
  /\ UNCHANGED <<disk, now, calls, setLog, allWritten>>
  /\ UNCHANGED <<resolverVars, pureVars>>

\* the clock
Tick ==
  /\ \/ now < StartTime + MaxTicks
     \/ \E t \in Threads : pc[t] = "sleep" /\ loc[t].wake > now
  /\ now' = now + 1
  /\ UNCHANGED <<mem, disk, client, last_request_time, lock, pc, loc, batch,
                 calls, grants, hist, setLog, allWritten, ops>>
  /\ UNCHANGED <<resolverVars, pureVars>>

(***************************************************************************)
(* The generator used by several threads of one process                    *)
(***************************************************************************)
Next ==
  \/ \E t \in Threads, e \in EntryIds, skip \in BOOLEAN :
       ops < MaxOps /\ GenEnter(t, e, skip)
  \/ \E t \in Threads : WaitAcquire(t)
  \/ \E t \in Threads : WaitWake(t)
  \/ \E t \in Threads : WaitStamp(t)
  \/ \E t \in Threads : GenCall(t)
  \/ \E t \in Threads : CacheSetMem(t)
  \/ \E t \in Threads : CacheSetDisk(t)
  \/ (ops < MaxOps /\ Clear)
  \/ (ops < MaxOps /\ Restart)
  \/ Tick

Spec == Init /\ [][Next]_vars

(***************************************************************************)
(* BlogGenerator.generate_batch                                            *)
(***************************************************************************)
Max2(a, b) == IF a >= b THEN a ELSE b
Min2(a, b) == IF a <= b THEN a ELSE b
\* s[:n]
Take(s, n) == SubSeq(s, 1, Min2(n, Len(s)))
\* "if limit:": None and 0 are false
Truthy(limit) == limit # None /\ limit[1] # 0
\* lines 574-577: the cached blogs of the entries, in entry order
RECURSIVE CachedBlogs(_, _)
CachedBlogs(es, m) ==
  IF es = <<>> THEN <<>>
  ELSE (IF KeyOf(Head(es)) \in DOMAIN m THEN <<m[KeyOf(Head(es))]>> ELSE <<>>)
       \o CachedBlogs(Tail(es), m)
\* lines 580-583
Uncached(es, m) ==
  LET miss(e) == KeyOf(e) \notin DOMAIN m
  IN SelectSeq(es, miss)
\* lines 585-587
EntriesToGenerate(es, m, limit) ==
  IF Truthy(limit)
  THEN Take(Uncached(es, m),
            Max2(0, (limit[1] - Len(CachedBlogs(es, m))) * 2))
  ELSE Uncached(es, m)

EntryLists == UNION {[1..n -> EntryIds] : n \in 1..MaxBatchLen}
Limits == {None} \cup {Some(n) : n \in 0..MaxLimit}

\* generate_batch(entries, limit) called from outside: lines 569-587
BatchEnter(t, es, limit) ==
  /\ pc[t] = "idle"
  /\ ops' = ops + 1
  /\ pc' = [pc EXCEPT ![t] = "batch"]
  /\ batch' = [batch EXCEPT ![t] =
                 [IdleBatch EXCEPT !.active = TRUE, !.limit = limit,
                                   !.entries = es,
                                   !.blogs = CachedBlogs(es, mem),
                                   !.todo = EntriesToGenerate(es, mem, limit),
                                   !.uncached = Uncached(es, mem)]]
  /\ UNCHANGED <<mem, disk, client, now, last_request_time, lock, loc, calls,
                 grants, hist, setLog, allWritten>>
  /\ UNCHANGED <<resolverVars, pureVars>>

\* one turn of the loop of lines 589-598, up to the first shared access of
\* generate; or, the loop being over, the return of lines 600-608
BatchStep(t) ==
  /\ pc[t] = "batch"
  /\ LET b == batch[t]
     IN IF \/ b.i > Len(b.todo)
           \/ (Truthy(b.limit) /\ Len(b.blogs) >= b.limit[1])
        THEN /\ pc' = [pc EXCEPT ![t] = "idle"]
             /\ batch' = [batch EXCEPT ![t] = IdleBatch]
             /\ hist' = Push(hist, [op |-> "batch", limit |-> b.limit,
                                    entries |-> b.entries, blogs |-> b.blogs,
                                    total |-> Len(b.entries),
                                    generated_count |-> b.generated_count,
                                    skipped_count |-> b.skipped_count,
                                    cached_count |-> Len(b.blogs) - b.generated_count,
                                    ext |-> b.ext, attempted |-> b.attempted,
                                    uncached |-> b.uncached])
             /\ UNCHANGED loc
        ELSE GenBegin(t, b.todo[b.i], FALSE, [b EXCEPT !.i = @ + 1])
  /\ UNCHANGED <<mem, disk, client, now, last_request_time, lock, calls, grants,
                 setLog, allWritten, ops>>
  /\ UNCHANGED <<resolverVars, pureVars>>

(***************************************************************************)
(* One thread: the calls come one after the other                          *)
(***************************************************************************)
Main == 1
SeqNext ==
  \/ \E e \in EntryIds, skip \in BOOLEAN : ops < MaxOps /\ GenEnter(Main, e, skip)
  \/ WaitAcquire(Main)
  \/ WaitWake(Main)
  \/ WaitStamp(Main)
  \/ GenCall(Main)
  \/ CacheSetMem(Main)
  \/ CacheSetDisk(Main)
  \/ (ops < MaxOps /\ pc[Main] = "idle" /\ Clear)
  \/ (ops < MaxOps /\ Restart)
  \/ Tick

SpecSeq == Init /\ [][SeqNext]_vars

\* one thread, every call with skip_validation=False
CheckedNext ==
  \/ \E e \in EntryIds : ops < MaxOps /\ GenEnter(Main, e, FALSE)
  \/ WaitAcquire(Main)
  \/ WaitWake(Main)
  \/ WaitStamp(Main)
  \/ GenCall(Main)
  \/ CacheSetMem(Main)
  \/ CacheSetDisk(Main)
  \/ (ops < MaxOps /\ pc[Main] = "idle" /\ Clear)
  \/ (ops < MaxOps /\ Restart)
  \/ Tick

SpecChecked == Init /\ [][CheckedNext]_vars

\* the cache alone
CacheNext ==
  \/ \E blog \in SetInputs : ops < MaxCacheOps /\ SetEnter(Main, blog)
  \/ CacheSetMem(Main)
  \/ CacheSetDisk(Main)
  \/ (ops < MaxCacheOps /\ pc[Main] = "idle" /\ Clear)
  \/ (ops < MaxCacheOps /\ Restart)

SpecCache == Init /\ [][CacheNext]_vars

BatchNext ==
  \/ \E es \in EntryLists, limit \in Limits :
       ops < MaxBatches /\ BatchEnter(Main, es, limit)
  \/ BatchStep(Main)
  \/ WaitAcquire(Main)
  \/ WaitWake(Main)
  \/ WaitStamp(Main)
  \/ GenCall(Main)
  \/ CacheSetMem(Main)
  \/ CacheSetDisk(Main)
  \/ Tick

SpecBatch == Init /\ [][BatchNext]_vars

(***************************************************************************)
(* The rate limiter alone, called by several threads                       *)
(***************************************************************************)
WaitNext ==
  \/ \E t \in Threads : ops < MaxWaits /\ WaitEnter(t)
  \/ \E t \in Threads : WaitAcquire(t)
  \/ \E t \in Threads : WaitWake(t)
  \/ \E t \in Threads : WaitStamp(t)
  \/ Tick

SpecWait == Init /\ [][WaitNext]_vars

\* Time passes only while no caller of wait can take a step: every caller is
\* asleep before its time or waits for a lock that is held.  Under this clock
\* the time between entering and leaving wait is the time wait blocks.
CanMove(t) ==
  \/ pc[t] = "stamp"
  \/ (pc[t] = "sleep" /\ now >= loc[t].wake)
  \/ (pc[t] = "wait" /\ lock = None)
TickBlocked ==
  /\ \A t \in Threads : ~CanMove(t)
  /\ Tick

TimedNext ==
  \/ \E t \in Threads : ops < MaxWaits /\ WaitEnter(t)
  \/ \E t \in Threads : WaitAcquire(t)
  \/ \E t \in Threads : WaitWake(t)
  \/ \E t \in Threads : WaitStamp(t)
  \/ TickBlocked

\* the threads are scheduled and the clock runs
SpecTimed ==
  /\ Init
  /\ [][TimedNext]_vars
  /\ WF_vars(TickBlocked)
  /\ \A t \in Threads : WF_vars(WaitAcquire(t) \/ WaitWake(t) \/ WaitStamp(t))

(***************************************************************************)
(* The identity resolver alone: case_id of two entries                     *)
(***************************************************************************)
\* company names and reported dates the two entries are drawn from
NamePool ==
  { <<"A","b">>, <<"A","B">>, <<"A",".","b">>, <<"A","_","b">>,
    <<"A","b",","," ","I","n","c",".">>, <<"A","b"," ","I","n","c">>,
    <<"A","b"," ","I","n","c"," ","C","o">>,
    <<"A","b"," ","C","o","r","p","o","r","a","t","i","o","n">>,
    <<"A","b","2","0","2","4","-","0","3">>, <<"Q">> }
DatePool ==
  { <<>>, <<"2","0","2","4","-","0","3","-","0","5">>,
    <<"3","/","5","/","2","0","2","4">>, <<"0","3","/","2","0","2","4">>,
    <<"2","0","2","4","-","0","4">> }
KeyInputs ==
  [company_name : NamePool, date_reported : DatePool]

InitKey ==
  /\ InitGenerator
  /\ ResolverIdle
  /\ kin \in {<<a, b>> : a \in KeyInputs, b \in KeyInputs}
  /\ kout = None
  /\ PureIdle

\* entry.case_id of both entries
Resolve ==
  /\ kout = None
  /\ kout' = Some(<<case_id(kin[1]), case_id(kin[2])>>)
  /\ UNCHANGED <<mem, disk, client, now, last_request_time, lock, pc, loc,
                 batch, calls, grants, hist, setLog, allWritten, ops, kin,
                 max_per_source, results, objs, produced, case_entries,
                 fold_i, fpc>>
  /\ UNCHANGED pureVars

KeyNext == Resolve

SpecKey == InitKey /\ [][KeyNext]_vars

(***************************************************************************)
(* BreachDataCollector.collect_all: the per-source cap and the fold        *)
(***************************************************************************)
\* the characters of the source names, in code point order
CodeOrder ==
  <<" ", ",", ".", "/">> \o <<"0","1","2","3","4","5","6","7","8","9">>
  \o UpperCase \o <<"_">> \o LowerCase
CharCode(c) == CHOOSE i \in DOMAIN CodeOrder : CodeOrder[i] = c
\* a < b for two str
StrLess(a, b) ==
  \E i \in 1..(Min2(Len(a), Len(b)) + 1) :
    /\ \A j \in 1..(i - 1) : a[j] = b[j]
    /\ IF i > Len(a) THEN i <= Len(b)
       ELSE i <= Len(b) /\ CharCode(a[i]) < CharCode(b[i])
\* sorted(S) of a set of str
RECURSIVE Sorted(_)
Sorted(S) ==
  IF S = {} THEN <<>>
  ELSE LET least == CHOOSE x \in S : \A y \in S \ {x} : StrLess(x, y)
       IN <<least>> \o Sorted(S \ {least})
\* s.split(',')
RECURSIVE SplitComma(_)
SplitComma(s) ==
  IF \A i \in DOMAIN s : s[i] # ","
  THEN <<s>>
  ELSE LET i == SetMin({j \in DOMAIN s : s[j] = ","})
       IN <<SubSeq(s, 1, i - 1)>> \o SplitComma(SubSeq(s, i + 1, Len(s)))
\* ', '.join(parts)
RECURSIVE JoinCommaSpace(_)
JoinCommaSpace(parts) ==
  IF parts = <<>> THEN <<>>
  ELSE IF Len(parts) = 1 THEN parts[1]
  ELSE parts[1] \o <<",", " ">> \o JoinCommaSpace(Tail(parts))

s_Unknown == <<"U","n","k","n","o","w","n">>
s_N_A == <<"N","/","A">>
\* the list ['Unknown', 'N/A', ''] of line 1318
NoRecords == {s_Unknown, s_N_A, <<>>}

\* the sources as they would be joined without sorted(): in the order met
MergeSourcesUnsorted(existing, entry) ==
  LET parts == SplitComma(existing.source)
      names == [i \in DOMAIN parts |-> Strip(parts[i])]
  IN JoinCommaSpace(IF entry.source \in Range(names) THEN names
                    ELSE Append(names, entry.source))
\* the sources as they would be kept in a list: every entry appends its own
MergeSourcesAppend(existing, entry) ==
  existing.source \o <<",", " ">> \o entry.source

\* the sources as they would be if the entity kept the source it came with
MergeSourcesKeepFirst(existing, entry) == existing.source

\* lines 1309-1311
MergeSources(existing, entry) ==
  LET parts == SplitComma(existing.source)
      existing_sources == {Strip(parts[i]) : i \in DOMAIN parts} \cup {entry.source}
  IN JoinCommaSpace(Sorted(existing_sources))

\* the merge as it would be if the last non-empty description won
MergeLastDescription(existing, entry) ==
  [existing EXCEPT
     !.source = MergeSources(existing, entry),
     !.threat_actor =
        IF existing.threat_actor = <<>> /\ entry.threat_actor # <<>>
        THEN entry.threat_actor ELSE @,
     !.description =
        IF entry.description # <<>> THEN entry.description ELSE @,
     !.records_affected =
        IF existing.records_affected \in NoRecords
           /\ entry.records_affected \notin NoRecords
        THEN entry.records_affected ELSE @,
     !.location =
        IF existing.location = <<>> /\ entry.location # <<>>
        THEN entry.location ELSE @]

\* lines 1306-1321: what the fold does to existing when entry has its key
Merge(existing, entry) ==
  [existing EXCEPT
     !.source = MergeSources(existing, entry),
     !.threat_actor =
        IF existing.threat_actor = <<>> /\ entry.threat_actor # <<>>
        THEN entry.threat_actor ELSE @,
     !.description =
        IF existing.description = <<>> /\ entry.description # <<>>
        THEN entry.description ELSE @,
     !.records_affected =
        IF existing.records_affected \in NoRecords
           /\ entry.records_affected \notin NoRecords
        THEN entry.records_affected ELSE @,
     !.location =
        IF existing.location = <<>> /\ entry.location # <<>>
        THEN entry.location ELSE @]

\* BreachEntry, with the defaults of its dataclass
RawEntry ==
  [company_name |-> <<>>, date_reported |-> <<>>, source |-> <<>>,
   url |-> s_http, description |-> <<>>, records_affected |-> s_Unknown,
   state_records_affected |-> <<>>, location |-> <<>>, threat_actor |-> <<>>,
   breach_type |-> <<"D","a","t","a"," ","B","r","e","a","c","h">>]
s_HHS_OCR == <<"H","H","S"," ","O","C","R">>
s_HackRead == <<"H","a","c","k","R","e","a","d">>
s_Cyble == <<"C","y","b","l","e">>
s_Lazarus == <<"L","a","z","a","r","u","s">>
\* the entries the collectors produce, named by their index
RawPool ==
  << \* "Acme Corp", 2024-03-05, from HHS OCR, a description of 10 characters
     [RawEntry EXCEPT !.company_name = <<"A","c","m","e"," ","C","o","r","p">>,
                      !.date_reported = <<"2","0","2","4","-","0","3","-","0","5">>,
                      !.source = s_HHS_OCR,
                      !.description = Text(10)],
     \* "ACME, Inc.", 03/2024, from Cyble, 300 characters, actor Lazarus
     [RawEntry EXCEPT !.company_name = <<"A","C","M","E",","," ","I","n","c",".">>,
                      !.date_reported = <<"0","3","/","2","0","2","4">>,
                      !.source = s_Cyble,
                      !.description = Text(300),
                      !.threat_actor = s_Lazarus],
     \* "ACME, Inc.", 3/5/2024, from Cyble, every optional field filled
     [RawEntry EXCEPT !.company_name = <<"A","C","M","E",","," ","I","n","c",".">>,
                      !.date_reported = <<"3","/","5","/","2","0","2","4">>,
                      !.source = s_Cyble,
                      !.description = Text(300),
                      !.threat_actor = s_Lazarus,
                      !.records_affected = <<"5">>,
                      !.state_records_affected = <<"7">>,
                      !.location = <<"T","X">>],
     \* "Acme Co", 2024-03-09, from HackRead, placeholders in the optional fields
     [RawEntry EXCEPT !.company_name = <<"A","c","m","e"," ","C","o">>,
                      !.date_reported = <<"2","0","2","4","-","0","3","-","0","9">>,
                      !.source = s_HackRead,
                      !.threat_actor = s_Unknown,
                      !.records_affected = s_N_A,
                      !.location = s_N_A],
     \* "Zed", no date, from HHS OCR
     [RawEntry EXCEPT !.company_name = <<"Z","e","d">>,
                      !.source = s_HHS_OCR] >>
\* entry.case_id of every entry of the pool
RawKeyTable == [i \in DOMAIN RawPool |-> case_id(RawPool[i])]
\* the key of an entry object: merging changes neither of the fields it reads
RawKey(entry) ==
  RawKeyTable[CHOOSE i \in DOMAIN RawPool :
                /\ RawPool[i].company_name = entry.company_name
                /\ RawPool[i].date_reported = entry.date_reported]

\* the most entries one feed or registry returns, the largest max_per_source
MaxFetched == 2
MaxCap == 2
RECURSIVE SeqsUpTo(_, _)
SeqsUpTo(S, n) ==
  IF n = 0 THEN {<<>>}
  ELSE LET shorter == SeqsUpTo(S, n - 1)
       IN shorter \cup {Append(s, x) : s \in {y \in shorter : Len(y) = n - 1}, x \in S}
Values(ids) == [i \in DOMAIN ids |-> RawPool[ids[i]]]
\* fetch_hhs_ocr: entries of the one source HHS OCR
HhsResults == {Values(ids) : ids \in SeqsUpTo({1, 5}, MaxFetched)}
\* fetch_all_news_feeds, lines 885-895: the entries of each feed of NEWS_FEEDS,
\* one feed after the other (HackRead comes before Cyble in the list)
NewsResults ==
  {Values(h) \o Values(c) : h \in SeqsUpTo({4}, MaxFetched),
                            c \in SeqsUpTo({2, 3}, MaxFetched)}
\* the two collectors of basic_sources that are modelled, in list order
Collectors == <<"HHS OCR", "Security News Feeds">>
\* a collector returns a list or raises
Outcomes(rs) == {[ok |-> TRUE, entries |-> r] : r \in rs}
                  \cup {[ok |-> FALSE, entries |-> <<>>]}

\* cap_entries, lines 1257-1262
cap_entries(entries, m) ==
  IF m > 0 /\ Len(entries) > m THEN SubSeq(entries, 1, m) ELSE entries

\* lines 1264-1285: the results are capped and appended as the futures
\* complete when parallel, in list order otherwise; a collector that raised
\* adds nothing
CollectEnter(parallel, m, hhs, news, hhsFirst) ==
  /\ fpc = "idle"
  /\ \/ parallel
     \/ hhsFirst
  /\ max_per_source' = m
  /\ results' = <<hhs, news>>
  /\ LET a == cap_entries(hhs.entries, m)
         b == cap_entries(news.entries, m)
         all_entries == IF hhsFirst THEN a \o b ELSE b \o a
     IN /\ objs' = all_entries
        /\ produced' = all_entries
  /\ case_entries' = <<>>
  /\ fold_i' = 1
  /\ fpc' = "fold"
  /\ UNCHANGED <<mem, disk, client, now, last_request_time, lock, pc, loc,
                 batch, calls, grants, hist, setLog, allWritten, ops, kin, kout>>
  /\ UNCHANGED pureVars

\* the object stored under case_key in case_entries, 0 when there is none
Stored(ce, case_key) ==
  IF \E i \in DOMAIN ce : ce[i].key = case_key
  THEN ce[CHOOSE i \in DOMAIN ce : ce[i].key = case_key].obj
  ELSE 0

\* the fold as it would be without the test of line 1302
FoldStepNoLookup ==
  /\ fpc = "fold"
  /\ fold_i <= Len(objs)
  /\ case_entries' = Append(case_entries,
                            [key |-> RawKey(objs[fold_i]), obj |-> fold_i])
  /\ fold_i' = fold_i + 1
  /\ UNCHANGED <<mem, disk, client, now, last_request_time, lock, pc, loc,
                 batch, calls, grants, hist, setLog, allWritten, ops, kin, kout,
                 max_per_source, results, objs, produced, fpc>>
  /\ UNCHANGED pureVars

\* lines 1300-1321: one iteration of the fold.  existing is the object that
\* was stored, and the assignments to its fields change that object.
FoldStep ==
  /\ fpc = "fold"
  /\ fold_i <= Len(objs)
  /\ LET entry == objs[fold_i]
         case_key == RawKey(entry)
         existing == Stored(case_entries, case_key)
     IN IF existing = 0
        THEN /\ case_entries' = Append(case_entries,
                                       [key |-> case_key, obj |-> fold_i])
             /\ UNCHANGED objs
        ELSE /\ objs' = [objs EXCEPT ![existing] = Merge(objs[existing], entry)]
             /\ UNCHANGED case_entries
  /\ fold_i' = fold_i + 1
  /\ UNCHANGED <<mem, disk, client, now, last_request_time, lock, pc, loc,
                 batch, calls, grants, hist, setLog, allWritten, ops, kin, kout,
                 max_per_source, results, produced, fpc>>
  /\ UNCHANGED pureVars

\* lines 1323-1325: unique_entries = list(case_entries.values())
FoldReturn ==
  /\ fpc = "fold"
  /\ fold_i > Len(objs)
  /\ fpc' = "done"
  /\ UNCHANGED <<mem, disk, client, now, last_request_time, lock, pc, loc,
                 batch, calls, grants, hist, setLog, allWritten, ops, kin, kout,
                 max_per_source, results, objs, produced, case_entries, fold_i>>
  /\ UNCHANGED pureVars
unique_entries == [i \in DOMAIN case_entries |-> objs[case_entries[i].obj]]

FoldNext ==
  \/ /\ fpc = "idle"
     /\ \E parallel \in BOOLEAN, m \in 0..MaxCap, hhs \in Outcomes(HhsResults),
           news \in Outcomes(NewsResults), hhsFirst \in BOOLEAN :
          CollectEnter(parallel, m, hhs, news, hhsFirst)
  \/ FoldStep
  \/ FoldReturn

SpecFold == Init /\ [][FoldNext]_vars

(***************************************************************************)
(* DataValidator.validate alone: one call on one entry                     *)
(***************************************************************************)
Blank(n) == <<[c |-> " ", n |-> n]>>
\* the values the fields of the entry are drawn from: absent, a placeholder
\* of one spelling or another, a value
CompanyNames ==
  {<<>>, <<"Z","e","d">>, s_Unknown, <<" ","T","B","D"," ">>, <<"n","/","a">>}
Descriptions ==
  {<<>>, Text(10), Text(49), Text(50), Text(199), Text(200), Blank(60)}
\* None, or the text of an article
ExtractedTexts == {<<>>, Text(38), Text(39), Text(100)}
RecordsValues == {<<>>, <<"5">>, s_Unknown, <<"N","A">>, <<"T","B","D">>}
ActorValues == {<<>>, <<"L","z">>, s_N_A, <<"N","A">>, <<"n","o","n","e">>}
LocationValues == {<<>>, <<"T","X">>, <<"N","o","n","e">>}
BreachTypes == {<<"D","a","t","a"," ","B","r","e","a","c","h">>, <<"H","a","c","k">>}
ValidateInputs ==
  {[entry |-> [BaseEntry EXCEPT !.company_name = n, !.description = d,
                                !.records_affected = r, !.threat_actor = a,
                                !.location = l, !.breach_type = b],
    extracted_text |-> x] :
     n \in CompanyNames, d \in Descriptions, x \in ExtractedTexts,
     r \in RecordsValues, a \in ActorValues, l \in LocationValues,
     b \in BreachTypes}

InitValidate ==
  /\ InitGenerator
  /\ ResolverIdle
  /\ kin = None
  /\ kout = None
  /\ vin \in {Some(i) : i \in ValidateInputs}
  /\ vout = None
  /\ din = None
  /\ dout = None
  /\ sin = None
  /\ sout = None

\* validator.validate(entry, extracted_text)
Validate ==
  /\ vin # None
  /\ vout = None
  /\ vout' = Some(validate(vin[1].entry, vin[1].extracted_text))
  /\ UNCHANGED <<mem, disk, client, now, last_request_time, lock, pc, loc,
                 batch, calls, grants, hist, setLog, allWritten, ops>>
  /\ UNCHANGED <<resolverVars, vin, din, dout, sin, sout>>

ValidateNext == Validate

SpecValidate == InitValidate /\ [][ValidateNext]_vars

(***************************************************************************)
(* datetime.strptime, for the directives of the formats in use.  A format  *)
(* is the sequence of its directives and literal characters; a datetime is *)
(* the record of its fields, z being None for a naive datetime and the     *)
(* offset from UTC in minutes, as <<offset>>, for an aware one.            *)
(***************************************************************************)
MonthNames ==
  << <<"j","a","n","u","a","r","y">>,
     <<"f","e","b","r","u","a","r","y">>,
     <<"m","a","r","c","h">>,
     <<"a","p","r","i","l">>,
     <<"m","a","y">>,
     <<"j","u","n","e">>,
     <<"j","u","l","y">>,
     <<"a","u","g","u","s","t">>,
     <<"s","e","p","t","e","m","b","e","r">>,
     <<"o","c","t","o","b","e","r">>,
     <<"n","o","v","e","m","b","e","r">>,
     <<"d","e","c","e","m","b","e","r">> >>
DayAbbrs == << <<"m","o","n">>,
              <<"t","u","e">>,
              <<"w","e","d">>,
              <<"t","h","u">>,
              <<"f","r","i">>,
              <<"s","a","t">>,
              <<"s","u","n">> >>
s_utc == <<"u","t","c">>
s_gmt == <<"g","m","t">>
\* the number written by the digits s[a..b]
RECURSIVE Num(_, _, _)
Num(s, a, b) == IF a > b THEN 0 ELSE 10 * Num(s, a, b - 1) + DigitValue(s[b])
RECURSIVE Pow10(_)
Pow10(n) == IF n = 0 THEN 1 ELSE 10 * Pow10(n - 1)
DigitsAt(s, p, n) ==
  p + n - 1 <= Len(s) /\ \A i \in p..(p + n - 1) : IsDigit(s[i])
\* s goes on at p with the word w, in any casing (the expression is compiled
\* with IGNORECASE)
WordAt(s, p, w) ==
  p + Len(w) - 1 <= Len(s) /\ Lower(SubSeq(s, p, p + Len(w) - 1)) = w
\* n digits at p that write a number of lo..hi
Number(s, p, n, lo, hi) ==
  IF DigitsAt(s, p, n) /\ Num(s, p, p + n - 1) \in lo..hi
  THEN {[to |-> p + n, val |-> Num(s, p, p + n - 1)]}
  ELSE {}
\* %z: Z, or a sign, two digits, an optional colon and two digits below 60
\* (the optional seconds of an offset are left out); timezone() takes
\* offsets of less than a day
ZoneAt(s, p) ==
  (IF p <= Len(s) /\ s[p] = "Z" THEN {[to |-> p + 1, val |-> 0]} ELSE {})
  \cup
  UNION {IF /\ p <= Len(s)
            /\ s[p] \in {"+", "-"}
            /\ DigitsAt(s, p + 1, 2)
            /\ (colon = 1 => p + 3 <= Len(s) /\ s[p + 3] = ":")
            /\ DigitsAt(s, p + 3 + colon, 2)
            /\ Num(s, p + 3 + colon, p + 3 + colon) <= 5
            /\ Num(s, p + 1, p + 2) < 24
         THEN {[to |-> p + 5 + colon,
                val |-> (IF s[p] = "-" THEN -1 ELSE 1)
                        * (60 * Num(s, p + 1, p + 2)
                           + Num(s, p + 3 + colon, p + 4 + colon))]}
         ELSE {} : colon \in {0, 1}}
\* the ways the directive or literal d matches s from position p: where the
\* match ends and the value it reads.  A blank of the format stands for \s+.
Directive(d, s, p) ==
  CASE d = "%Y" -> Number(s, p, 4, 0, 9999)
    [] d = "%m" -> Number(s, p, 2, 1, 12) \cup Number(s, p, 1, 1, 9)
    [] d = "%d" -> Number(s, p, 2, 1, 31) \cup Number(s, p, 1, 1, 9)
                   \cup (IF p <= Len(s) /\ s[p] = " "
                         THEN Number(s, p + 1, 1, 1, 9) ELSE {})
    [] d = "%H" -> Number(s, p, 2, 0, 23) \cup Number(s, p, 1, 0, 9)
    [] d = "%M" -> Number(s, p, 2, 0, 59) \cup Number(s, p, 1, 0, 9)
    [] d = "%S" -> Number(s, p, 2, 0, 61) \cup Number(s, p, 1, 0, 9)
    [] d = "%y" -> Number(s, p, 2, 0, 99)
    [] d = "%f" -> UNION {IF DigitsAt(s, p, n)
                          THEN {[to |-> p + n,
                                 val |-> Num(s, p, p + n - 1) * Pow10(6 - n)]}
                          ELSE {} : n \in 1..6}
    [] d = "%z" -> ZoneAt(s, p)
    [] d = "%Z" -> {[to |-> p + 3, val |-> 0] :
                      w \in {x \in {s_utc, s_gmt} : WordAt(s, p, x)}}
    [] d = "%a" -> {[to |-> p + 3, val |-> i] :
                      i \in {j \in DOMAIN DayAbbrs : WordAt(s, p, DayAbbrs[j])}}
    [] d = "%b" -> {[to |-> p + 3, val |-> i] :
                      i \in {j \in DOMAIN MonthNames :
                               WordAt(s, p, SubSeq(MonthNames[j], 1, 3))}}
    [] d = "%B" -> {[to |-> p + Len(MonthNames[i]), val |-> i] :
                      i \in {j \in DOMAIN MonthNames : WordAt(s, p, MonthNames[j])}}
    [] d = " " -> {[to |-> q, val |-> 0] :
                     q \in {r \in (p + 1)..(Len(s) + 1) :
                              \A i \in p..(r - 1) : IsSpace(s[i])}}
    [] OTHER -> IF p <= Len(s) /\ LowerChar(s[p]) = LowerChar(d)
                THEN {[to |-> p + 1, val |-> 0]} ELSE {}
\* the fields strptime starts from: 1900-01-01 00:00:00
NoFields == [Y |-> 1900, m |-> 1, d |-> 1, H |-> 0, M |-> 0, S |-> 0, f |-> 0,
             z |-> <<>>]
\* what a directive's value does to the fields
Read(fields, d, val) ==
  CASE d = "%Y" -> [fields EXCEPT !.Y = val]
    [] d = "%y" -> [fields EXCEPT !.Y = IF val <= 68 THEN 2000 + val ELSE 1900 + val]
    [] d \in {"%m", "%b", "%B"} -> [fields EXCEPT !.m = val]
    [] d = "%d" -> [fields EXCEPT !.d = val]
    [] d = "%H" -> [fields EXCEPT !.H = val]
    [] d = "%M" -> [fields EXCEPT !.M = val]
    [] d = "%S" -> [fields EXCEPT !.S = val]
    [] d = "%f" -> [fields EXCEPT !.f = val]
    [] d = "%z" -> [fields EXCEPT !.z = <<val>>]
    [] OTHER -> fields
\* the fields of every match of format[k..] with s[p..] that uses up s
RECURSIVE MatchFrom(_, _, _, _, _)
MatchFrom(format, k, s, p, fields) ==
  IF k > Len(format) THEN (IF p = Len(s) + 1 THEN {fields} ELSE {})
  ELSE UNION {MatchFrom(format, k + 1, s, r.to, Read(fields, format[k], r.val)) :
                r \in Directive(format[k], s, p)}
IsLeap(y) == y % 4 = 0 /\ (y % 100 # 0 \/ y % 400 = 0)
DaysInMonth(y, m) ==
  IF m = 2 THEN (IF IsLeap(y) THEN 29 ELSE 28)
  ELSE IF m \in {4, 6, 9, 11} THEN 30 ELSE 31
\* datetime(...) takes these fields
IsDate(x) == x.Y >= 1 /\ x.d <= DaysInMonth(x.Y, x.m) /\ x.S <= 59
\* datetime.strptime(s, format): None stands for ValueError
strptime(s, format) ==
  LET found == {x \in MatchFrom(format, 1, s, 1, NoFields) : IsDate(x)}
  IN IF found = {} THEN <<>> ELSE <<CHOOSE x \in found : TRUE>>

(***************************************************************************)
(* RSSFeedGenerator._parse_date                                            *)
(***************************************************************************)
\* the list formats, lines 1413-1432
formats ==
  << <<"%Y","-","%m","-","%d"," ","%H",":","%M",":","%S",".","%f">>,
     <<"%Y","-","%m","-","%d"," ","%H",":","%M",":","%S">>,
     <<"%Y","-","%m","-","%d","T","%H",":","%M",":","%S",".","%f">>,
     <<"%Y","-","%m","-","%d","T","%H",":","%M",":","%S">>,
     <<"%Y","-","%m","-","%d","T","%H",":","%M",":","%S","Z">>,
     <<"%Y","-","%m","-","%d","T","%H",":","%M",":","%S","%z">>,
     <<"%a",","," ","%d"," ","%b"," ","%Y"," ","%H",":","%M",":","%S"," ","%z">>,
     <<"%a",","," ","%d"," ","%b"," ","%Y"," ","%H",":","%M",":","%S"," ","%Z">>,
     <<"%a",","," ","%d"," ","%b"," ","%Y"," ","%H",":","%M",":","%S"," ","G","M","T">>,
     <<"%Y","-","%m","-","%d">>,
     <<"%m","/","%d","/","%Y">>,
     <<"%m","/","%d","/","%y">>,
     <<"%B"," ","%d",","," ","%Y">>,
     <<"%b"," ","%d",","," ","%Y">>,
     <<"%b"," ","%d"," ","%Y">>,
     <<"%b"," ","%d",","," ","%Y">>,
     <<"%d"," ","%b"," ","%Y">>,
     <<"%d"," ","%B"," ","%Y">> >>
\* s.split('.')[0] and s.split('.')[-1]
BeforeFirstDot(s) == SubSeq(s, 1, SetMin({i \in DOMAIN s : s[i] = "."}) - 1)
AfterLastDot(s) == SubSeq(s, SetMax({i \in DOMAIN s : s[i] = "."}) + 1, Len(s))
\* lines 1408-1411
clean_date(date_str) ==
  LET stripped == Strip(date_str)
  IN IF "." \in Range(stripped) /\ Len(AfterLastDot(stripped)) > 4
     THEN BeforeFirstDot(stripped)
     ELSE stripped
\* lines 1437-1438 and 1448-1449: a naive datetime is given the zone UTC
AssumeUtc(parsed) == IF parsed.z = <<>> THEN [parsed EXCEPT !.z = <<0>>] ELSE parsed
\* lines 1434-1442: the first format of the list that parses the text
RECURSIVE FirstFormat(_, _)
FirstFormat(text, i) ==
  IF i > Len(formats) THEN <<>>
  ELSE LET parsed == strptime(text, formats[i])
       IN IF parsed # <<>> THEN parsed ELSE FirstFormat(text, i + 1)
\* datetime.now(timezone.utc), line 1406 and line 1455
UtcNow(clock) == [clock EXCEPT !.z = <<0>>]
\* how a call ends: it returns x, or an exception of class exc leaves it
Returns(x) == [exc |-> "none", value |-> <<x>>]
Raises(exc) == [exc |-> exc, value |-> <<>>]
\* what the import of dateutil and its parse can raise: no module of that
\* name, a text it cannot read (ParserError is a ValueError), a number too
\* large for a date
FallbackErrors == {"ImportError", "ParserError", "OverflowError"}
\* the handler as it would be with "except ValueError", as in the loop
CaughtAsValueError(exc) == exc = "ParserError"
\* except Exception, line 1451: all of these are subclasses of Exception
Caught(exc) == exc \in FallbackErrors
\* _parse_date(date_str) when the clock reads clock and the import and parse
\* of lines 1446-1447, if they are reached, end as fallback
parse_date(date_str, clock, fallback) ==
  IF date_str = <<>> THEN Returns(UtcNow(clock))
  ELSE LET parsed == FirstFormat(clean_date(date_str), 1)
       IN IF parsed # <<>> THEN Returns(AssumeUtc(parsed[1]))
          ELSE IF fallback.exc = "none"
          THEN Returns(AssumeUtc(fallback.value[1]))
          ELSE IF Caught(fallback.exc) THEN Returns(UtcNow(clock))
          ELSE Raises(fallback.exc)

\* the texts handed to _parse_date: a date, a time, a fraction of a second
\* and a zone, each in several spellings or absent, and some whole texts
DateTexts ==
  { <<"2","0","2","4","-","0","3","-","0","5">>,
    <<"0","3","/","0","5","/","2","0","2","4">>,
    <<"3","/","5","/","2","4">>,
    <<"M","a","r"," ","5",","," ","2","0","2","4">>,
    <<"M","a","r","c","h"," ","5",","," ","2","0","2","4">>,
    <<"5"," ","M","a","r"," ","2","0","2","4">>,
    <<"2","0","2","4","-","0","2","-","3","0">>,
    <<"0","3","/","2","0","2","4">>,
    <<"M","a","r","."," ","5",","," ","2","0","2","4">>,
    <<"n","o","t","-","a","-","d","a","t","e">> }
TimeTexts == { <<>>,
               <<"T","1","0",":","0","0",":","0","0">>,
               <<" ","1","0",":","0","0",":","0","0">> }
FractionTexts == { <<>>, <<".","1","2">>, <<".","1","2","3","4","5","6">> }
ZoneTexts == { <<>>,
               <<"Z">>,
               <<"+","0","5",":","3","0">>,
               <<"-","0","5","0","0">> }
WholeTexts ==
  { <<>>,
    <<" ","2","0","2","4","-","0","3","-","0","5"," ">>,
    <<"T","u","e",","," ","0","5"," ","M","a","r"," ","2","0","2","4"," ","1","0",":","0","0",":","0","0"," ","+","0","5","3","0">>,
    <<"T","u","e",","," ","0","5"," ","M","a","r"," ","2","0","2","4"," ","1","0",":","0","0",":","0","0"," ","G","M","T">>,
    <<"t","u","e",","," ","5"," ","m","a","r"," ","2","0","2","4"," ","1","0",":","0","0",":","0","0"," ","u","t","c">>,
    <<"T","u","e",","," ","0","5"," ","M","a","r"," ","2","0","2","4"," ","1","0",":","0","0",":","0","0"," ","E","S","T">> }
DateStrings ==
  {d \o t \o f \o z : d \in DateTexts, t \in TimeTexts, f \in FractionTexts,
                     z \in ZoneTexts} \cup WholeTexts
\* what the clock of the machine reads, as a naive datetime in UTC
Clocks ==
  {[NoFields EXCEPT !.Y = 2026, !.m = 11, !.d = 1, !.H = 12],
   [NoFields EXCEPT !.Y = 2027, !.m = 1, !.d = 31, !.H = 23, !.M = 59]}
\* how dateutil's parse may end: with an exception, or with a datetime,
\* naive or aware, the fields the text lacks taken from today
FallbackResults(clock) ==
  {Raises(exc) : exc \in FallbackErrors}
  \cup {Returns([clock EXCEPT !.H = 0, !.M = 0, !.z = z]) :
          z \in {<<>>, <<0>>, <<-300>>}}

InitDate ==
  /\ InitGenerator
  /\ ResolverIdle
  /\ kin = None
  /\ kout = None
  /\ vin = None
  /\ vout = None
  /\ din \in {Some([date_str |-> s, clock |-> c]) : s \in DateStrings, c \in Clocks}
  /\ dout = None
  /\ sin = None
  /\ sout = None

\* self._parse_date(entry.date_reported)
ParseDate ==
  /\ din # None
  /\ dout = None
  /\ \E fallback \in FallbackResults(din[1].clock) :
       dout' = Some(parse_date(din[1].date_str, din[1].clock, fallback))
  /\ UNCHANGED <<mem, disk, client, now, last_request_time, lock, pc, loc,
                 batch, calls, grants, hist, setLog, allWritten, ops>>
  /\ UNCHANGED <<resolverVars, vin, vout, din, sin, sout>>

DateNext == ParseDate

SpecDate == InitDate /\ [][DateNext]_vars

(***************************************************************************)
(* The newest-first sort of main and of generate_static_site               *)
(***************************************************************************)
\* the formats of get_sort_date
sort_formats ==
  << <<"%Y","-","%m","-","%d">>,
     <<"%m","/","%d","/","%Y">>,
     <<"%B"," ","%d",","," ","%Y">> >>
datetime_min == [NoFields EXCEPT !.Y = 1]
\* the loop of get_sort_date: the first of the three formats that parses text
RECURSIVE FirstSortFormat(_, _)
FirstSortFormat(text, i) ==
  IF i > Len(sort_formats) THEN <<>>
  ELSE LET parsed == strptime(text, sort_formats[i])
       IN IF parsed # <<>> THEN parsed ELSE FirstSortFormat(text, i + 1)
\* get_sort_date(e): the first ten characters of the date are parsed
get_sort_date(e) ==
  LET parsed == FirstSortFormat(Take(e.date_reported, 10), 1)
  IN IF parsed # <<>> THEN parsed[1] ELSE datetime_min
\* a < b for two naive datetimes
DatetimeLess(a, b) ==
  LET x == <<a.Y, a.m, a.d, a.H, a.M, a.S, a.f>>
      y == <<b.Y, b.m, b.d, b.H, b.M, b.S, b.f>>
  IN \E i \in 1..7 : x[i] < y[i] /\ \A j \in 1..(i - 1) : x[j] = y[j]
\* e put into a list that is sorted newest first, after the entries that are
\* not older than it
InsertNewestFirst(sorted, e) ==
  LET ahead == {i \in DOMAIN sorted :
                  ~DatetimeLess(get_sort_date(sorted[i]), get_sort_date(e))}
      k == Cardinality(ahead)
  IN SubSeq(sorted, 1, k) \o <<e>> \o SubSeq(sorted, k + 1, Len(sorted))
\* entries.sort(key=get_sort_date, reverse=True): the sort is stable, entries
\* of equal key stay in the order they had
RECURSIVE SortNewestFirst(_)
SortNewestFirst(entries) ==
  IF entries = <<>> THEN <<>>
  ELSE InsertNewestFirst(SortNewestFirst(SubSeq(entries, 1, Len(entries) - 1)),
                         entries[Len(entries)])

\* the reported dates of the entries that are sorted
SortDates ==
  { <<>>,
    <<"n","o","t","-","a","-","d","a","t","e">>,
    <<"2","0","2","4","-","0","3","-","0","5">>,
    <<"0","3","/","0","7","/","2","0","2","4">>,
    <<"M","a","r","c","h"," ","9",","," ","2","0","2","4">>,
    <<"2","0","2","4","-","0","3","-","0","1","T","1","0",":","0","0",":","0","0">>,
    <<"T","u","e",","," ","1","2"," ","M","a","r"," ","2","0","2","4"," ","1","0",":","0","0",":","0","0"," ","+","0","0","0","0">> }
\* the longest list that is sorted
MaxSorted == 3
SortInputs ==
  {[i \in DOMAIN ds |-> [RawEntry EXCEPT !.date_reported = ds[i]]] :
     ds \in SeqsUpTo(SortDates, MaxSorted)}

InitSort ==
  /\ InitGenerator
  /\ ResolverIdle
  /\ kin = None
  /\ kout = None
  /\ vin = None
  /\ vout = None
  /\ din = None
  /\ dout = None
  /\ sin \in {Some(es) : es \in SortInputs}
  /\ sout = None

\* entries.sort(key=get_sort_date, reverse=True)
SortEntries ==
  /\ sin # None
  /\ sout = None
  /\ sout' = Some(SortNewestFirst(sin[1]))
  /\ UNCHANGED <<mem, disk, client, now, last_request_time, lock, pc, loc,
                 batch, calls, grants, hist, setLog, allWritten, ops>>
  /\ UNCHANGED <<resolverVars, vin, vout, din, dout, sin>>

SortNext == SortEntries

SpecSort == InitSort /\ [][SortNext]_vars

(***************************************************************************)
(* BlogCache.__init__ over a directory that holds malformed units          *)
(***************************************************************************)
\* the keys of the blogs earlier processes may have stored
DirKeys == {KeyOf(i) : i \in DOMAIN EntryPool}
\* the blog an earlier process stored under key k
DirBlog(k) ==
  LET e == CHOOSE x \in DOMAIN EntryPool : KeyOf(x) = k
      r == CHOOSE x \in Responses : IsJsonObject(x)
  IN MakeBlog(e, r.body, ValidateTable[e][<<>>].quality_score, StartTime)
\* a JSON object that lacks a field of BlogPost, and one with a member that
\* BlogPost does not have
MissingFieldUnit(blog) ==
  [kind |-> "json",
   obj |-> [f \in BlogFields \ {"quality_score"} |-> ToJson(blog)[f]]]
ExtraFieldUnit(blog) ==
  [kind |-> "json",
   obj |-> [f \in BlogFields \cup {"version"} |->
              IF f \in BlogFields THEN ToJson(blog)[f]
              ELSE [t |-> "string", v |-> "1"]]]
\* what the file k.json may hold
UnitsOf(k) ==
  {GoodUnit(DirBlog(k)), CorruptUnit, MissingFieldUnit(DirBlog(k)),
   ExtraFieldUnit(DirBlog(k))}
Directories ==
  UNION {{d \in [S -> UNION {UnitsOf(k) : k \in S}] :
            \A k \in S : d[k] \in UnitsOf(k)} : S \in SUBSET DirKeys}
\* the exception of lines 328-329 for a unit, "none" when it loads
LoadError(u) ==
  IF u.kind # "json" THEN "JSONDecodeError"
  ELSE IF DOMAIN u.obj # BlogFields THEN "TypeError"
  ELSE "none"
\* except Exception, line 332: both are subclasses of Exception
LoadCaught(exc) == exc \in {"JSONDecodeError", "TypeError"}
\* the exception that leaves _load_from_disk, "none" when it returns
RECURSIVE Escaping(_, _)
Escaping(d, order) ==
  IF order = <<>> THEN "none"
  ELSE LET exc == LoadError(d[Head(order)])
       IN IF exc = "none" THEN Escaping(d, Tail(order))
          ELSE IF LoadCaught(exc) THEN "none"
          ELSE exc

InitHydrate ==
  /\ mem = EmptyMap
  /\ disk \in Directories
  /\ client \in BOOLEAN
  /\ now = StartTime
  /\ last_request_time = 0
  /\ lock = None
  /\ pc = [t \in Threads |-> "idle"]
  /\ loc = [t \in Threads |-> IdleLoc]
  /\ batch = [t \in Threads |-> IdleBatch]
  /\ calls = [k \in AllKeys |-> 0]
  /\ grants = <<>>
  /\ hist = <<>>
  /\ setLog = EmptyMap
  /\ allWritten = TRUE
  /\ ops = 0
  /\ ResolverIdle
  /\ kin = None
  /\ kout = None
  /\ PureIdle

\* BlogCache(cache_dir), lines 313-317: the files are listed in some order
\* and loaded; the event records the order and the exception of the call
Construct ==
  /\ ops = 0
  /\ ops' = 1
  /\ \E o \in Orders(DOMAIN disk) :
       /\ mem' = IF Escaping(disk, o) = "none" THEN LoadAll(disk, o, EmptyMap)
                 ELSE EmptyMap
       /\ hist' = Push(hist, [op |-> "construct", order |-> o,
                              exc |-> Escaping(disk, o)])
  /\ UNCHANGED <<disk, client, now, last_request_time, lock, pc, loc, batch,
                 calls, grants, setLog, allWritten>>
  /\ UNCHANGED <<resolverVars, pureVars>>

HydrateNext == Construct

SpecHydrate == InitHydrate /\ [][HydrateNext]_vars

(***************************************************************************)
(* Properties                                                              *)
(***************************************************************************)
Events == {hist[i] : i \in DOMAIN hist}
\* no call is under way in the main thread
Quiet == pc[Main] \in {"idle", "batch"}

\* C1: for every key, client.messages.create is invoked at most once over
\* the life of the cache, whatever the interleaving of the generate calls and
\* the restarts.
C1_AtMostOneCallPerKey == \A k \in AllKeys : calls[k] <= 1

\* C2: of two generate calls made one right after the other for the same
\* case_id, the first of which made the external call and returned a blog,
\* the second makes no external call and returns that very blog.
C2_First == hist[Len(hist) - 1]
C2_Case ==
  /\ Len(hist) >= 2
  /\ C2_First.op = "generate"
  /\ Last(hist).op = "generate"
  /\ C2_First.key = Last(hist).key
  /\ C2_First.ext
  /\ C2_First.ret # None
C2_SecondCallIsServedFromCache ==
  C2_Case => (~Last(hist).ext /\ Last(hist).ret = C2_First.ret)
\* ... reached with a second entry that differs from the first (another
\* company name, another score) and has the same case_id
C2_Witness == C2_Case /\ Last(hist).e # C2_First.e

\* C3: a generate call that returns None leaves the memory map and the
\* durable units as it found them.
C3_FailedCallLeavesCacheUnchanged ==
  \A ev \in Events : (ev.op = "generate" /\ ev.ret = None) => ev.same
\* ... reached by a call whose external call was made and failed
C3_Witness ==
  \E ev \in Events : ev.op = "generate" /\ ev.ret = None /\ ev.ext

\* C4: when BlogCache.set(blog) has returned, has(blog.id) is true, get(blog.id)
\* is blog and get_all() contains it, whatever became of the disk write; when
\* the write succeeded, the unit named after blog.id holds blog's fields.
C4_Case == Quiet /\ hist # <<>> /\ Last(hist).op = "set"
C4_SetIsVisible ==
  C4_Case =>
    LET blog == Last(hist).ret[1]
    IN /\ blog.id \in DOMAIN mem
       /\ MapGet(mem, blog.id) = Some(blog)
       /\ blog \in {mem[k] : k \in DOMAIN mem}
       /\ Last(hist).write = "ok" =>
            /\ blog.id \in DOMAIN disk
            /\ disk[blog.id].kind = "json"
            /\ DOMAIN disk[blog.id].obj = BlogFields
            /\ \A f \in BlogFields : JsonValue(disk[blog.id].obj[f]) = blog[f]
\* ... reached by a set whose write failed, for an id that was already cached
\* with another blog
C4_Witness ==
  /\ C4_Case
  /\ Len(hist) >= 2
  /\ hist[1].op = "set"
  /\ hist[1].key = Last(hist).key
  /\ hist[1].ret # Last(hist).ret
  /\ Last(hist).write # "ok"

\* C5: after set calls whose disk writes all succeeded, a BlogCache newly
\* constructed over the same directory has every id that was set, and get(id)
\* is, field for field, the last blog set for it.
C5_Case == Quiet /\ hist # <<>> /\ Last(hist).op = "restart" /\ allWritten
C5_RestartRestoresLastSet ==
  C5_Case =>
    \A id \in DOMAIN setLog :
      /\ id \in DOMAIN mem
      /\ \A f \in BlogFields : mem[id][f] = setLog[id][f]
\* ... reached with two ids on disk, one of them with a two-decimal score
C5_Witness ==
  /\ C5_Case
  /\ Cardinality(DOMAIN setLog) >= 2
  /\ \E id \in DOMAIN setLog : setLog[id].quality_score % 10 # 0

\* C6: between clears the cache only grows: no step of a generate call
\* replaces or removes the blog stored for a key.  (Steps of clear and of a
\* restart are set aside.)
C6_Kept == \A k \in DOMAIN mem : k \in DOMAIN mem' /\ mem'[k] = mem[k]
C6_ClearOrRestart ==
  /\ hist' # hist
  /\ Last(hist').op \in {"clear", "restart"}
C6_AppendOnly == [][C6_Kept \/ C6_ClearOrRestart]_vars

\* C7: any two successive returns from wait on one limiter are at least
\* min_interval apart, whatever the interleaving of the callers.
C7_ReturnsAreSpaced ==
  \A i \in 1..(Len(grants) - 1) : grants[i + 1] - grants[i] >= min_interval
\* ... reached when a caller had to wait for the lock another caller held
C7_Witness ==
  /\ Len(grants) >= 2
  /\ \E ev \in Events : ev.op = "wait" /\ ev.ahead >= 1

\* C8 as the specification has it: a call to wait is blocked for at most one
\* min_interval, also when other callers wait on the same limiter.
C8_BlockedAtMostOneInterval ==
  \A ev \in Events : ev.op = "wait" => ev.left - ev.entered <= min_interval

\* C8, amended: a call to wait sleeps for at most one min_interval and is
\* blocked for at most one min_interval more for each caller served ahead of
\* it while it waited for the lock; and every call returns.
C8_SleepBound ==
  \A t \in Threads : pc[t] = "sleep" => loc[t].wake - now <= min_interval
C8_BlockedBound ==
  \A ev \in Events :
    ev.op = "wait" => ev.left - ev.entered <= (1 + ev.ahead) * min_interval
C8_InWait(t) == pc[t] \in {"wait", "sleep", "stamp"}
C8_WaitIsBounded ==
  /\ [](C8_SleepBound /\ C8_BlockedBound)
  /\ \A t \in Threads : C8_InWait(t) ~> (pc[t] = "idle")
\* ... reached by a call that was blocked for more than one min_interval
C8_Witness ==
  \E ev \in Events :
    ev.op = "wait" /\ ev.ahead >= 1 /\ ev.left - ev.entered > min_interval

\* C9: with a cap L >= 1, generate_batch attempts the uncached entries until
\* L new blogs have been produced in the batch or no uncached entry is left;
\* the cached blogs it returns do not count against L.
C9_CapCountsOnlyNewBlogs ==
  \A ev \in Events :
    (ev.op = "batch" /\ ev.limit # None /\ ev.limit[1] >= 1) =>
      /\ ev.generated_count <= ev.limit[1]
      /\ ev.generated_count = ev.limit[1] \/ ev.attempted = ev.uncached

\* C10: for every limit >= 0, 0 included, one generate_batch call makes at
\* most limit external generations.
C10_LimitBoundsGenerations ==
  \A ev \in Events : (ev.op = "batch" /\ ev.limit # None) => ev.ext <= ev.limit[1]

\* C11: two entries whose company names differ only by letter case, by
\* punctuation characters or by one trailing corporate suffix, and whose date
\* buckets are the same, get the same case_id.
C11_IsPunct(c) ==
  c \notin Range(UpperCase) \cup Range(LowerCase) \cup Digits \cup {" "}
C11_Plain(c) == ~C11_IsPunct(c)
C11_Core(name) == Lower(SelectSeq(name, C11_Plain))
C11_OneSuffixApart(a, b) ==
  \/ a = b
  \/ \E i \in DOMAIN CorporateSuffixes :
       a = b \o CorporateSuffixes[i] \/ b = a \o CorporateSuffixes[i]
C11_Case ==
  /\ kout # None
  /\ C11_OneSuffixApart(C11_Core(kin[1].company_name),
                        C11_Core(kin[2].company_name))
  /\ DatePart(kin[1].date_reported) = DatePart(kin[2].date_reported)
C11_VariantsShareKey == C11_Case => kout[1][1] = kout[1][2]

\* C12: two entries whose normalized names differ or whose date buckets
\* differ have different hashed strings, hence different keys.
C12_Case ==
  /\ kout # None
  /\ \/ NormalizedName(kin[1].company_name) # NormalizedName(kin[2].company_name)
     \/ DatePart(kin[1].date_reported) # DatePart(kin[2].date_reported)
C12_DistinctInputsDistinctKeys == C12_Case => kout[1][1] # kout[1][2]
\* ... reached by a name that ends like a bucket, with no date, against the
\* shorter name with that bucket: the two strings differ by the hyphen only
C12_Witness ==
  /\ C12_Case
  /\ DatePart(kin[1].date_reported) = <<>>
  /\ DatePart(kin[2].date_reported) # <<>>
  /\ kout[1][1] = RemovePunct(kout[1][2])

\* the entries folded so far, and those of them that have a given key
Folded == 1..(fold_i - 1)
FoldedInto(key) == {j \in Folded : RawKey(produced[j]) = key}
SourceNames(source) ==
  LET parts == SplitComma(source) IN {Strip(parts[i]) : i \in DOMAIN parts}
\* a step of the fold that merges objs[fold_i] into a stored object
MergeStep ==
  /\ fpc = "fold"
  /\ fold_i <= Len(objs)
  /\ fold_i' = fold_i + 1
  /\ Stored(case_entries, RawKey(objs[fold_i])) # 0

\* C13: the entries ("Acme Corp", 2024-03-05, HHS OCR) and ("ACME, Inc.",
\* 03/2024, Cyble, actor Lazarus), folded in either order, give one merged
\* entity whose source lists both sources and whose threat_actor is Lazarus.
C13_Case ==
  /\ fpc = "done"
  /\ produced \in {<<RawPool[1], RawPool[2]>>, <<RawPool[2], RawPool[1]>>}
C13_ScenarioMerges ==
  C13_Case =>
    /\ Len(unique_entries) = 1
    /\ unique_entries[1].source = JoinCommaSpace(<<s_Cyble, s_HHS_OCR>>)
    /\ unique_entries[1].threat_actor = s_Lazarus

\* C14: a merge changes no field that holds a value (not empty, not a
\* placeholder), never changes company_name, date_reported, url or
\* breach_type, and only adds names to source.
C14_Fixed == {"company_name", "date_reported", "url", "breach_type"}
C14_Optional ==
  {"threat_actor", "records_affected", "state_records_affected", "location"}
C14_Keeps(o) ==
  /\ \A f \in C14_Fixed : objs'[o][f] = objs[o][f]
  /\ \A f \in C14_Optional :
       objs[o][f] \notin {<<>>, s_Unknown, s_N_A} => objs'[o][f] = objs[o][f]
  /\ objs[o].description # <<>> => objs'[o].description = objs[o].description
  /\ SourceNames(objs[o].source) \subseteq SourceNames(objs'[o].source)
C14_MergeNeverOverwrites ==
  [][fpc = "fold" => \A o \in DOMAIN objs : C14_Keeps(o)]_vars
\* ... reached when an entry with another description, actor and count was
\* folded into an entity that had its own
C14_Witness ==
  \E i \in DOMAIN case_entries :
    \E j \in FoldedInto(case_entries[i].key) \ {case_entries[i].obj} :
      LET o == case_entries[i].obj
      IN /\ produced[o].description # <<>>
         /\ produced[j].description # <<>>
         /\ produced[j].description # produced[o].description
         /\ objs[o].description = produced[o].description

\* C15: when an entry is folded into an entity with its key, each of
\* threat_actor, description, state_records_affected and location of the
\* entity becomes the entry's value if it was empty, "Unknown" or "N/A" (and
\* the entry has a value), and stays as it was if it held a value.
C15_Placeholders == {<<>>, s_Unknown, s_N_A}
C15_FieldAdopts(old, incoming, new) ==
  /\ old \notin C15_Placeholders => new = old
  /\ (old \in C15_Placeholders /\ incoming \notin C15_Placeholders)
       => new = incoming
C15_Adopts ==
  LET entry == objs[fold_i]
      o == Stored(case_entries, RawKey(entry))
  IN /\ \A f \in {"threat_actor", "state_records_affected", "location"} :
          C15_FieldAdopts(objs[o][f], entry[f], objs'[o][f])
     /\ objs'[o].description =
          IF objs[o].description = <<>> THEN entry.description
          ELSE objs[o].description
C15_PlaceholdersAreFilled == [][MergeStep => C15_Adopts]_vars

\* C16: the source of a merged entity is the sorted, duplicate-free,
\* comma-joined list of the sources of exactly the entries folded into it.
C16_SourceIsSortedUnion ==
  \A i \in DOMAIN case_entries :
    objs[case_entries[i].obj].source =
      JoinCommaSpace(Sorted({produced[j].source :
                               j \in FoldedInto(case_entries[i].key)}))
\* ... reached by an entity of four entries from three sources, the first of
\* them not from the least source
C16_Witness ==
  /\ fpc = "done"
  /\ \E i \in DOMAIN case_entries :
       LET js == FoldedInto(case_entries[i].key)
           names == {produced[j].source : j \in js}
       IN /\ Cardinality(js) >= 4
          /\ Cardinality(names) = 3
          /\ \E n \in names : StrLess(n, produced[case_entries[i].obj].source)

\* C17: folding an entry into an entity with its key twice gives the entity
\* that folding it once gives, in every field.
C17_MergeIsIdempotent ==
  \A i \in DOMAIN case_entries, x \in DOMAIN RawPool :
    RawKeyTable[x] = case_entries[i].key =>
      LET once == Merge(objs[case_entries[i].obj], RawPool[x])
      IN Merge(once, RawPool[x]) = once
\* ... reached with an entity that was merged before and an entry that adds
\* a source and a count to it
C17_Witness ==
  \E i \in DOMAIN case_entries, x \in DOMAIN RawPool :
    LET e == objs[case_entries[i].obj]
        once == Merge(e, RawPool[x])
    IN /\ RawKeyTable[x] = case_entries[i].key
       /\ Cardinality(SourceNames(e.source)) = 2
       /\ Cardinality(SourceNames(once.source)) = 3
       /\ once.records_affected # e.records_affected

\* C18: collect_all returns one entity per case_id of the folded entries, in
\* the order in which the keys were first seen, and the case_id of each
\* returned entity is the key it is stored under.
RECURSIVE C18_FirstSeen(_, _)
C18_FirstSeen(keys, seen) ==
  IF keys = <<>> THEN <<>>
  ELSE IF Head(keys) \in seen THEN C18_FirstSeen(Tail(keys), seen)
  ELSE <<Head(keys)>> \o C18_FirstSeen(Tail(keys), seen \cup {Head(keys)})
C18_OneEntityPerKeyInOrder ==
  fpc = "done" =>
    /\ [i \in DOMAIN case_entries |-> case_entries[i].key]
         = C18_FirstSeen([j \in DOMAIN produced |-> case_id(produced[j])], {})
    /\ \A i, k \in DOMAIN unique_entries :
         i # k => case_id(unique_entries[i]) # case_id(unique_entries[k])
    /\ \A i \in DOMAIN unique_entries :
         case_id(unique_entries[i]) = case_entries[i].key
\* ... reached when an entry was merged into the first entity after a second
\* key had been stored
C18_Witness ==
  /\ fpc = "done"
  /\ Len(case_entries) >= 2
  /\ \E j \in DOMAIN produced :
       /\ j > case_entries[2].obj
       /\ RawKey(produced[j]) = case_entries[1].key

\* C19: with max_per_source = m > 0 every source name contributes the first
\* min(n, m) of the n entries it produced; with m = 0 it contributes them all.
C19_From(entries, s) == LET Is(e) == e.source = s IN SelectSeq(entries, Is)
C19_EachSourceIsCapped ==
  fpc # "idle" =>
    \A s \in {s_HHS_OCR, s_HackRead, s_Cyble} :
      LET made == C19_From(results[1].entries \o results[2].entries, s)
          n == Len(made)
      IN C19_From(produced, s) =
           IF max_per_source > 0
           THEN SubSeq(made, 1, Min2(n, max_per_source))
           ELSE made

\* C20: the fold changes no field of an entry object a collector returned.
C20_EntriesAreNotChanged == objs = produced

(***************************************************************************)
(* The validator                                                           *)
(***************************************************************************)
\* a call of validate has returned
Validated == vin # None /\ vout # None

C21_Stoplist == {s_unknown, s_n_a, s_na, s_none, <<>>, s_tbd}
C21_NameOk(entry) ==
  /\ entry.company_name # <<>>
  /\ Strip(Lower(entry.company_name)) \notin C21_Stoplist
\* the description joined with the extracted text, if there is one; the
\* blanks around the whole are not counted
C21_ContentOk(entry, text) ==
  RLLen(RLStrip(IF text = <<>> THEN entry.description
                ELSE entry.description \o Blank(1) \o text)) >= 50
\* C21: validate returns is_valid = true if and only if the company name is
\* non-empty and, lower-cased and trimmed, no placeholder, the description
\* joined with the extracted text has at least 50 characters, and the quality
\* score it returns is at least 0.5.
C21_ValidIffThreeConditions ==
  Validated =>
    (vout[1].is_valid <=>
       /\ C21_NameOk(vin[1].entry)
       /\ C21_ContentOk(vin[1].entry, vin[1].extracted_text)
       /\ vout[1].quality_score >= 50)

\* a field of an entry counts as the validator tests it: it is not empty and
\* its lower-cased value is not in the list of that test
C22_Present(value, list) == value # <<>> /\ Lower(value) \notin list
\* the weights, in hundredths, of the signals that hold for an entry
C22_Weights(entry) ==
  << IF C21_NameOk(entry) THEN 30 ELSE 0,
     IF RLLen(entry.description) >= 50 THEN 20 ELSE 0,
     IF RLLen(entry.description) >= 200 THEN 10 ELSE 0,
     IF C22_Present(entry.records_affected, {s_unknown, s_n_a, s_na}) THEN 15 ELSE 0,
     IF C22_Present(entry.threat_actor, {s_unknown, s_n_a}) THEN 10 ELSE 0,
     IF C22_Present(entry.location, {s_unknown, s_n_a}) THEN 5 ELSE 0,
     IF Lower(entry.breach_type) \notin {s_data_breach, s_breach, s_unknown, <<>>}
     THEN 10 ELSE 0 >>
C23_Stoplist == {s_unknown, s_n_a, s_na, s_none, s_tbd}
C23_Counts(value) == value # <<>> /\ Lower(value) \notin C23_Stoplist
\* what the field adds to the score: the score less the score of the same
\* entry without the field
C23_Gain(field) ==
  vout[1].quality_score
  - validate([vin[1].entry EXCEPT ![field] = <<>>],
             vin[1].extracted_text).quality_score
\* C23: the affected-count, actor and location signals add their weight
\* (15, 10, 5) if and only if the field is non-empty and is none of unknown,
\* n/a, na, none, tbd in any casing; a placeholder adds nothing.
C23_PlaceholdersAddNothing ==
  Validated =>
    \A f \in {<<"records_affected", 15>>, <<"threat_actor", 10>>, <<"location", 5>>} :
      C23_Gain(f[1]) = IF C23_Counts(vin[1].entry[f[1]]) THEN f[2] ELSE 0

C24_Reasons == Range(vout[1].reasons)
\* the claim as it was made: every failing condition has its message,
\* whatever the other conditions do
C24_EveryFailingConditionIsReported ==
  Validated =>
    /\ ~C21_NameOk(vin[1].entry) => "name" \in C24_Reasons
    /\ ~C21_ContentOk(vin[1].entry, vin[1].extracted_text)
         => "content" \in C24_Reasons
    /\ vout[1].quality_score < 50 => "score" \in C24_Reasons
\* C24: the reasons hold a name message exactly when the name is a
\* placeholder and a content message exactly when the combined content is
\* under 50 characters, each whatever the other does; they hold a score
\* message exactly when name and content pass and the entry is invalid all
\* the same, so a low score is not reported next to a name or content message.
C24_ReasonsReported ==
  Validated =>
    /\ "name" \in C24_Reasons <=> ~C21_NameOk(vin[1].entry)
    /\ "content" \in C24_Reasons
         <=> ~C21_ContentOk(vin[1].entry, vin[1].extracted_text)
    /\ "score" \in C24_Reasons
         <=> /\ C21_NameOk(vin[1].entry)
             /\ C21_ContentOk(vin[1].entry, vin[1].extracted_text)
             /\ ~vout[1].is_valid
\* two messages at once, from an entry whose score is low as well
C24_Witness ==
  /\ Validated
  /\ vout[1].reasons = <<"name", "content">>
  /\ vout[1].quality_score < 50

(***************************************************************************)
(* The date normalizer                                                     *)
(***************************************************************************)
\* a call of _parse_date has returned
Parsed == din # None /\ dout # None

\* C25: _parse_date raises for no text (empty, in one of the formats, left
\* to the fallback parser, or read by nothing at all): the call returns, and
\* the datetime it returns carries a time zone.
C25_AlwaysAnAwareTimestamp ==
  Parsed =>
    /\ dout[1].exc = "none"
    /\ IsDate(dout[1].value[1])
    /\ dout[1].value[1].z # <<>>
\* a text that no format parses, and the fallback has failed: the clock's
\* time comes back
C25_Witness ==
  /\ Parsed
  /\ din[1].date_str # <<>>
  /\ FirstFormat(clean_date(din[1].date_str), 1) = <<>>
  /\ dout[1] = Returns(UtcNow(din[1].clock))

\* C26: the time zone of every datetime _parse_date returns is UTC, for a
\* naive parse, for a parse with an explicit offset, with or without the
\* cut at the fraction of a second.
C26_AlwaysUtc ==
  Parsed => (dout[1].exc = "none" /\ dout[1].value[1].z = <<0>>)

\* the normalizer's timestamp of an entry whose date no fallback parses
C27_Stamp(e) ==
  parse_date(e.date_reported, CHOOSE c \in Clocks : TRUE,
             Raises("ParserError")).value[1]
\* C27: the sorted list is in the order of the timestamps _parse_date gives
\* the entries, newest first, so an entry without a parseable date (the
\* clock's time) stands before every entry with a date in the past.
C27_NewestFirstByTimestamp ==
  sout # None =>
    \A i, j \in DOMAIN sout[1] :
      i < j => ~DatetimeLess(C27_Stamp(sout[1][i]), C27_Stamp(sout[1][j]))

(***************************************************************************)
(* The order of the steps of generate                                      *)
(***************************************************************************)
\* the main thread comes to position p in this step
C28_Reaches(p) == pc[Main] # p /\ pc'[Main] = p
\* a step of the cache's owner outside generate: clear, or a new process
C28_ClearOrRestart == Clear \/ Restart
\* the step in which generate goes on to the rate limiter: the key was not
\* in the cache, the entry is valid for a text the extractor can return, and
\* its score is the one the blog will carry
C28_MissAndValid ==
  LET e == loc'[Main].e
  IN /\ pc[Main] = "idle"
     /\ KeyOf(e) \notin DOMAIN mem
     /\ \E x \in ExtractOutcomes(Entry(e)) :
          /\ validate(Entry(e), x).is_valid
          /\ validate(Entry(e), x).quality_score = loc'[Main].qs
RECURSIVE C29_Fold(_, _)
C29_Fold(entries, acc) ==
  IF entries = <<>> THEN acc
  ELSE LET entry == Head(entries)
           hit == {i \in DOMAIN acc : acc[i].key = RawKey(entry)}
       IN C29_Fold(Tail(entries),
                   IF hit = {}
                   THEN Append(acc, [key |-> RawKey(entry), entity |-> entry])
                   ELSE [acc EXCEPT ![CHOOSE i \in hit : TRUE].entity =
                                      Merge(@, entry)])
\* what collect_all would have returned had the two collectors completed in
\* the other order
C29_OtherOrder ==
  LET a == cap_entries(results[1].entries, max_per_source)
      b == cap_entries(results[2].entries, max_per_source)
  IN C29_Fold(IF produced = a \o b THEN b \o a ELSE a \o b, <<>>)
C29_KeysAndSources(folded) ==
  {<<folded[i].key, folded[i].entity.source>> : i \in DOMAIN folded}
C29_Returned ==
  [i \in DOMAIN case_entries |->
     [key |-> case_entries[i].key, entity |-> objs[case_entries[i].obj]]]
\* C29: whichever of the parallel collectors completes first, collect_all
\* returns the same identity keys and, for each key, the same source string;
\* the order of the output and the values of the other fields may differ.
C29_CompletionOrderIsImmaterial ==
  fpc = "done" => C29_KeysAndSources(C29_Returned) = C29_KeysAndSources(C29_OtherOrder)
\* an entity with entries of both collectors that the other order would
\* have returned with another description
C29_Witness ==
  /\ fpc = "done"
  /\ \E i \in DOMAIN C29_Returned, j \in DOMAIN C29_OtherOrder :
       /\ C29_Returned[i].key = C29_OtherOrder[j].key
       /\ Cardinality(SourceNames(C29_Returned[i].entity.source)) = 2
       /\ C29_Returned[i].entity.description # C29_OtherOrder[j].entity.description

(***************************************************************************)
(* Hydration over malformed units                                          *)
(***************************************************************************)
C30_Constructed == hist # <<>> /\ Last(hist).op = "construct"
C30_Malformed(u) == u.kind # "json" \/ DOMAIN u.obj # BlogFields
\* the place in the listing of the first malformed unit, one past the end
\* when there is none
C30_Stop(o) ==
  SetMin({i \in DOMAIN o : C30_Malformed(disk[o[i]])} \cup {Len(o) + 1})
====
